---- MODULE Spec2Model ----
(***************************************************************************)
(* Fixed-point math core of the Balancer SDK (dist/index.js):              *)
(* SolidityMaths, LogExpMath and the stable-pool invariant solver.         *)
(*                                                                         *)
(* The source computes with JavaScript BigInt, an arbitrary-precision      *)
(* signed integer whose division truncates toward zero.  The model keeps   *)
(* that type: a BigInt value is a sign and a magnitude, the magnitude a    *)
(* little-endian sequence of base-1000 limbs without a leading zero limb,  *)
(* so that equal integers are equal values.                                *)
(***************************************************************************)
EXTENDS Integers, Sequences, FiniteSets, TLC

(***************************************************************************)
(* BigInt magnitudes                                                       *)
(***************************************************************************)
Base == 1000

\* Recursions over the limbs of a number split the range of limbs in two
\* halves, so that their nesting grows with the logarithm of the length.

\* the limbs of m up to the last limb that is not zero, taken from nz
StripTo(m, nz) ==
    IF nz = {} THEN <<>>
    ELSE SubSeq(m, 1, CHOOSE i \in nz : \A j \in nz : j <= i)

Strip(m) ==
    IF m = <<>> THEN <<>>
    ELSE IF m[Len(m)] # 0 THEN m
    ELSE StripTo(m, {i \in 1..Len(m) : m[i] # 0})

RECURSIVE NatLimbs(_)
NatLimbs(n) == IF n = 0 THEN <<>> ELSE <<n % Base>> \o NatLimbs(n \div Base)

\* the limbs of the columns lo..hi with carry c coming in, followed by the
\* carry that goes out
RECURSIVE CarryRange(_, _, _, _)
CarryUpper(cols, lo, hi, l) ==
    SubSeq(l, 1, Len(l) - 1)
      \o CarryRange(cols, (lo + hi) \div 2 + 1, hi, l[Len(l)])

CarryRange(cols, lo, hi, c) ==
    IF lo = hi THEN <<(cols[lo] + c) % Base, (cols[lo] + c) \div Base>>
    ELSE CarryUpper(cols, lo, hi, CarryRange(cols, lo, (lo + hi) \div 2, c))

CarryEnd(r) == SubSeq(r, 1, Len(r) - 1) \o NatLimbs(r[Len(r)])

Carry(cols, c) ==
    IF Len(cols) = 0 THEN NatLimbs(c)
    ELSE CarryEnd(CarryRange(cols, 1, Len(cols), c))

Limb(m, i) == IF i >= 1 /\ i <= Len(m) THEN m[i] ELSE 0

MaxOf(x, y) == IF x >= y THEN x ELSE y

MinOf(x, y) == IF x <= y THEN x ELSE y

MagAdd(a, b) ==
    Strip(Carry([i \in 1..MaxOf(Len(a), Len(b)) |-> Limb(a, i) + Limb(b, i)], 0))

\* defined for a >= b
MagSub(a, b) ==
    Strip(Carry([i \in 1..MaxOf(Len(a), Len(b)) |-> Limb(a, i) - Limb(b, i)], 0))

\* the comparison of the limbs lo..hi, the most significant limb deciding
RECURSIVE CmpFrom(_, _, _, _)
CmpLower(a, b, lo, hi, upper) ==
    IF upper # 0 THEN upper ELSE CmpFrom(a, b, lo, (lo + hi) \div 2)

CmpFrom(a, b, lo, hi) ==
    IF lo > hi THEN 0
    ELSE IF lo = hi
    THEN (IF a[lo] = b[lo] THEN 0 ELSE IF a[lo] < b[lo] THEN -1 ELSE 1)
    ELSE CmpLower(a, b, lo, hi, CmpFrom(a, b, (lo + hi) \div 2 + 1, hi))

MagCmp(a, b) ==
    IF Len(a) # Len(b) THEN (IF Len(a) < Len(b) THEN -1 ELSE 1)
    ELSE CmpFrom(a, b, 1, Len(a))

RECURSIVE ColSum(_, _, _, _, _)
ColSum(a, b, k, i, hi) ==
    IF i > hi THEN 0
    ELSE IF i = hi THEN a[i] * b[k + 1 - i]
    ELSE ColSum(a, b, k, i, (i + hi) \div 2)
           + ColSum(a, b, k, (i + hi) \div 2 + 1, hi)

MagMul(a, b) ==
    IF a = <<>> \/ b = <<>> THEN <<>>
    ELSE Strip(Carry([k \in 1..(Len(a) + Len(b) - 1) |->
                        ColSum(a, b, k, MaxOf(1, k + 1 - Len(b)), MinOf(k, Len(a)))], 0))

MagMulSmall(v, d) ==
    IF d = 0 THEN <<>> ELSE Strip(Carry([i \in 1..Len(v) |-> v[i] * d], 0))

\* an estimate of the quotient limb of r by v, for r < v * Base: the limb
\* itself when v has one or two limbs, and never above it otherwise
QDigit(r, v) ==
    IF MagCmp(r, v) < 0 THEN 0
    ELSE LET lv == Len(v)
             v2 == IF lv = 1 THEN v[1] ELSE v[lv] * Base + v[lv - 1]
             r3 == IF lv = 1 THEN Limb(r, 2) * Base + r[1]
                   ELSE Limb(r, lv + 1) * Base * Base + r[lv] * Base + r[lv - 1]
         IN  IF lv <= 2 THEN r3 \div v2 ELSE r3 \div (v2 + 1)

\* Long division, most significant limb first.  A state is the quotient
\* limbs found so far and the running remainder.  The limbs hi..lo are
\* handled as two halves, so that the nesting of the evaluation grows with
\* the logarithm of the number of limbs.

\* the estimate d is raised until the remainder is below v
RECURSIVE LongDivFix(_, _, _, _)
LongDivFix(v, q, d, rem) ==
    IF MagCmp(rem, v) < 0 THEN [q |-> <<d>> \o q, r |-> rem]
    ELSE LongDivFix(v, q, d + 1, MagSub(rem, v))

\* the tests only make the evaluation of d and of v * d eager
LongDivTake(v, q, r1, d, vd) ==
    IF Len(vd) >= 0 THEN LongDivFix(v, q, d, MagSub(r1, vd))
    ELSE [q |-> q, r |-> r1]

LongDivDigit(v, q, r1, d) ==
    IF d >= 0 THEN LongDivTake(v, q, r1, d, MagMulSmall(v, d))
    ELSE [q |-> q, r |-> r1]

LongDivLimb(v, q, r1) == LongDivDigit(v, q, r1, QDigit(r1, v))

RECURSIVE LongDiv(_, _, _, _, _)
LongDiv(u, v, hi, lo, st) ==
    \* the first test only makes the evaluation of st eager
    IF DOMAIN st = {} THEN st
    ELSE IF hi = lo THEN LongDivLimb(v, st.q, Strip(<<u[hi]>> \o st.r))
    ELSE LongDiv(u, v, (hi + lo) \div 2, lo,
                 LongDiv(u, v, hi, (hi + lo) \div 2 + 1, st))

MagDivResult(st) == [q |-> Strip(st.q), r |-> st.r]

\* defined for v # <<>>
MagDivMod(u, v) ==
    IF u = <<>> THEN [q |-> <<>>, r |-> <<>>]
    ELSE MagDivResult(LongDiv(u, v, Len(u), 1, [q |-> <<>>, r |-> <<>>]))

(***************************************************************************)
(* BigInt values and the operators the source applies to them              *)
(***************************************************************************)
Mk(neg, mag) == [neg |-> neg /\ mag # <<>>, mag |-> mag]

\* BigInt(n) of a machine integer n
BigInt(n) == IF n < 0 THEN Mk(TRUE, NatLimbs(0 - n)) ELSE Mk(FALSE, NatLimbs(n))

Reverse(s) == [i \in 1..Len(s) |-> s[Len(s) + 1 - i]]

\* BigInt('...') of a decimal literal, written as its groups of three digits
Dec(groups) == Mk(FALSE, Strip(Reverse(groups)))

BigNeg(a) == Mk(~a.neg, a.mag)

BigAdd(a, b) ==
    IF a.neg = b.neg THEN Mk(a.neg, MagAdd(a.mag, b.mag))
    ELSE IF MagCmp(a.mag, b.mag) >= 0 THEN Mk(a.neg, MagSub(a.mag, b.mag))
    ELSE Mk(b.neg, MagSub(b.mag, a.mag))

BigSub(a, b) == BigAdd(a, BigNeg(b))

BigMul(a, b) == Mk(a.neg # b.neg, MagMul(a.mag, b.mag))

\* a / b of two BigInt: the quotient truncated toward zero (b # 0)
BigDiv(a, b) == Mk(a.neg # b.neg, MagDivMod(a.mag, b.mag).q)

\* a % b of two BigInt: the remainder has the sign of the dividend (b # 0)
BigMod(a, b) == Mk(a.neg, MagDivMod(a.mag, b.mag).r)

BigCmp(a, b) ==
    IF a.neg # b.neg THEN (IF a.neg THEN -1 ELSE 1)
    ELSE IF a.neg THEN MagCmp(b.mag, a.mag) ELSE MagCmp(a.mag, b.mag)

BigLt(a, b) == BigCmp(a, b) < 0

BigLe(a, b) == BigCmp(a, b) <= 0

\* TRUE of every BigInt.  A loop tests it on the values it carries, which
\* makes their evaluation happen at that step, not after the last step.
Evaluated(a) == a.neg \in BOOLEAN

(***************************************************************************)
(* Results of calls that may throw: err is "none" for a returned value     *)
(***************************************************************************)
Ok(v) == [err |-> "none", val |-> v]

Fail(e) == [err |-> e, val |-> BigInt(0)]

RECURSIVE FirstErr(_)
FirstErr(rs) ==
    IF rs = <<>> THEN "none"
    ELSE IF Head(rs).err # "none" THEN Head(rs).err
    ELSE FirstErr(Tail(rs))

(***************************************************************************)
(* SolidityMaths                                                           *)
(***************************************************************************)
BZERO == BigInt(0)

BONE == BigInt(1)

\* ONE$1, 18 decimal places
ONE == Dec(<<1, 0, 0, 0, 0, 0, 0>>)

add(a, b) ==
    LET c == BigAdd(a, b)
    IN  IF (BigLe(BZERO, b) /\ BigLe(a, c)) \/ (BigLt(b, BZERO) /\ BigLt(c, a))
        THEN Ok(c) ELSE Fail("Errors.ADD_OVERFLOW")

sub(a, b) == IF BigLe(b, a) THEN Ok(BigSub(a, b)) ELSE Fail("Errors.SUB_OVERFLOW")

mul(a, b) ==
    LET c == BigMul(a, b)
    IN  IF a = BZERO \/ BigDiv(c, a) = b THEN Ok(c) ELSE Fail("Errors.MUL_OVERFLOW")

divDown(a, b) ==
    IF b = BZERO THEN Fail("Errors.ZERO_DIVISION") ELSE Ok(BigDiv(a, b))

divUp(a, b) ==
    IF b = BZERO THEN Fail("Errors.ZERO_DIVISION")
    ELSE IF a = BZERO THEN Ok(BZERO)
    ELSE Ok(BigAdd(BONE, BigDiv(BigSub(a, BONE), b)))

div(a, b, roundUp) == IF roundUp THEN divUp(a, b) ELSE divDown(a, b)

\* mulUpFixed that adds one even when the product is a multiple of ONE
mulUpFixed_AlwaysPlusOne(a, b) ==
    IF ~(a = BZERO \/ BigDiv(BigMul(a, b), a) = b) THEN Fail("Errors.MUL_OVERFLOW")
    ELSE Ok(BigAdd(BigDiv(BigMul(a, b), ONE), BONE))

mulUpFixed(a, b) ==
    LET product == BigMul(a, b)
    IN  IF ~(a = BZERO \/ BigDiv(product, a) = b) THEN Fail("Errors.MUL_OVERFLOW")
        ELSE IF product = BZERO THEN Ok(BZERO)
        ELSE Ok(BigAdd(BigDiv(BigSub(product, BONE), ONE), BONE))

\* divDownFixed that tests a == 0 before b == 0
divDownFixed_ZeroFirst(a, b) ==
    IF a = BZERO THEN Ok(BZERO)
    ELSE IF b = BZERO THEN Fail("Errors.ZERO_DIVISION")
    ELSE Ok(BigDiv(BigMul(a, ONE), b))

divDownFixed(a, b) ==
    IF b = BZERO THEN Fail("Errors.ZERO_DIVISION")
    ELSE IF a = BZERO THEN Ok(BZERO)
    ELSE Ok(BigDiv(BigMul(a, ONE), b))

\* divUpFixed without the final + BONE
divUpFixed_NoCeil(a, b) ==
    IF b = BZERO THEN Fail("Errors.ZERO_DIVISION")
    ELSE IF a = BZERO THEN Ok(BZERO)
    ELSE Ok(BigDiv(BigSub(BigMul(a, ONE), BONE), b))

divUpFixed(a, b) ==
    IF b = BZERO THEN Fail("Errors.ZERO_DIVISION")
    ELSE IF a = BZERO THEN Ok(BZERO)
    ELSE LET aInflated == BigMul(a, ONE)
         IN  IF BigDiv(aInflated, a) # ONE THEN Fail("Errors.DIV_INTERNAL")
             ELSE Ok(BigAdd(BigDiv(BigSub(aInflated, BONE), b), BONE))

\* mulDownFixed that rounds a negative quotient away from zero
mulDownFixed_Floor(a, b) ==
    IF BigLt(BigMul(a, b), BZERO) /\ BigMod(BigMul(a, b), ONE) # BZERO
    THEN Ok(BigSub(BigDiv(BigMul(a, b), ONE), BONE))
    ELSE Ok(BigDiv(BigMul(a, b), ONE))

mulDownFixed(a, b) ==
    LET product == BigMul(a, b)
    IN  IF ~(a = BZERO \/ BigDiv(product, a) = b) THEN Fail("Errors.MUL_OVERFLOW")
        ELSE Ok(BigDiv(product, ONE))

(***************************************************************************)
(* LogExpMath: constants                                                   *)
(***************************************************************************)
ONE_18 == Dec(<<1, 0, 0, 0, 0, 0, 0>>)

ONE_20 == Dec(<<100, 0, 0, 0, 0, 0, 0>>)

ONE_36 == Dec(<<1, 0, 0, 0, 0, 0, 0, 0, 0, 0, 0, 0, 0>>)

MAX_NATURAL_EXPONENT == Dec(<<130, 0, 0, 0, 0, 0, 0>>)

MIN_NATURAL_EXPONENT == BigNeg(Dec(<<41, 0, 0, 0, 0, 0, 0>>))

LN_36_LOWER_BOUND == BigSub(ONE_18, Dec(<<100, 0, 0, 0, 0, 0>>))

LN_36_UPPER_BOUND == BigAdd(ONE_18, Dec(<<100, 0, 0, 0, 0, 0>>))

Square(x) == BigMul(x, x)

\* a ** n for a machine integer n >= 0
RECURSIVE BigPow(_, _)
BigPowStep(a, n, h) ==
    IF Evaluated(h) /\ n % 2 = 0 THEN Square(h) ELSE BigMul(a, Square(h))

BigPow(a, n) ==
    IF n = 0 THEN BigInt(1) ELSE BigPowStep(a, n, BigPow(a, n \div 2))

MILD_EXPONENT_BOUND == BigDiv(BigPow(BigInt(2), 254), ONE_20)

\* the bound on x in pow, 2^255
X_BOUND ==
    Dec(<<57, 896, 44, 618, 658, 97, 711, 785, 492, 504, 343, 953, 926, 634,
          992, 332, 820, 282, 19, 728, 792, 3, 956, 564, 819, 968>>)

x0 == Dec(<<128, 0, 0, 0, 0, 0, 0>>)

a0 ==
    Dec(<<38, 877, 84, 59, 945, 950, 922, 200, 0, 0, 0, 0, 0, 0, 0, 0, 0, 0,
          0>>)

x1 == Dec(<<64, 0, 0, 0, 0, 0, 0>>)

a1 == Dec(<<6, 235, 149, 80, 811, 616, 882, 910, 0, 0>>)

x2 == Dec(<<3, 200, 0, 0, 0, 0, 0, 0>>)

a2 == Dec(<<7, 896, 296, 18, 268, 69, 516, 100, 0, 0, 0, 0>>)

x3 == Dec(<<1, 600, 0, 0, 0, 0, 0, 0>>)

a3 == Dec(<<888, 611, 52, 50, 787, 263, 676, 0, 0>>)

x4 == Dec(<<800, 0, 0, 0, 0, 0, 0>>)

a4 == Dec(<<298, 95, 798, 704, 172, 827, 474, 0>>)

x5 == Dec(<<400, 0, 0, 0, 0, 0, 0>>)

a5 == Dec(<<5, 459, 815, 3, 314, 423, 907, 810>>)

x6 == Dec(<<200, 0, 0, 0, 0, 0, 0>>)

a6 == Dec(<<738, 905, 609, 893, 65, 22, 723>>)

x7 == Dec(<<100, 0, 0, 0, 0, 0, 0>>)

a7 == Dec(<<271, 828, 182, 845, 904, 523, 536>>)

x8 == Dec(<<50, 0, 0, 0, 0, 0, 0>>)

a8 == Dec(<<164, 872, 127, 70, 12, 814, 685>>)

x9 == Dec(<<25, 0, 0, 0, 0, 0, 0>>)

a9 == Dec(<<128, 402, 541, 668, 774, 148, 407>>)

x10 == Dec(<<12, 500, 0, 0, 0, 0, 0>>)

a10 == Dec(<<113, 314, 845, 306, 682, 631, 683>>)

x11 == Dec(<<6, 250, 0, 0, 0, 0, 0>>)

a11 == Dec(<<106, 449, 445, 891, 785, 942, 956>>)

\* x_n and a_n by their index n = 0..11
xn(n) == <<x0, x1, x2, x3, x4, x5, x6, x7, x8, x9, x10, x11>>[n + 1]

an(n) == <<a0, a1, a2, a3, a4, a5, a6, a7, a8, a9, a10, a11>>[n + 1]

(***************************************************************************)
(* LogExpMath.exp                                                          *)
(***************************************************************************)
\* the conditional reductions of x by x_n, n = 2..9
RECURSIVE ExpReduce(_, _, _)
ExpReduce(x, product, n) ==
    IF n > 9 \/ ~(Evaluated(x) /\ Evaluated(product))
    THEN [x |-> x, product |-> product]
    ELSE IF BigLe(xn(n), x)
    THEN ExpReduce(BigSub(x, xn(n)), BigDiv(BigMul(product, an(n)), ONE_20), n + 1)
    ELSE ExpReduce(x, product, n + 1)

\* the Taylor series: term k is term k-1 times x / ONE_20 / k, k = 2..12
RECURSIVE ExpSeries(_, _, _, _)
ExpSeriesAdd(x, term, seriesSum, k) ==
    ExpSeries(x, term, BigAdd(seriesSum, term), k + 1)

ExpSeries(x, term, seriesSum, k) ==
    IF k > 12 \/ ~(Evaluated(term) /\ Evaluated(seriesSum)) THEN seriesSum
    ELSE ExpSeriesAdd(x, BigDiv(BigDiv(BigMul(term, x), ONE_20), BigInt(k)),
                      seriesSum, k)

ExpScale(firstAN, scaled) ==
    IF Evaluated(scaled) THEN BigDiv(BigMul(scaled, firstAN), BigInt(100))
    ELSE scaled

ExpResult(firstAN, product, seriesSum) ==
    IF Evaluated(seriesSum)
    THEN ExpScale(firstAN, BigDiv(BigMul(product, seriesSum), ONE_20))
    ELSE seriesSum

ExpTail(firstAN, red) ==
    IF Evaluated(red.x)
    THEN ExpResult(firstAN, red.product,
                   ExpSeries(red.x, red.x, BigAdd(ONE_20, red.x), 2))
    ELSE red.x

ExpFrom(x, firstAN) ==
    ExpTail(firstAN, ExpReduce(BigMul(x, BigInt(100)), ONE_20, 2))

\* exp of an x >= 0 within the bounds
ExpPositive(x) ==
    IF BigLe(x0, x) THEN ExpFrom(BigSub(x, x0), a0)
    ELSE IF BigLe(x1, x) THEN ExpFrom(BigSub(x, x1), a1)
    ELSE ExpFrom(x, BigInt(1))

ExpInvert(r) ==
    IF r.err # "none" THEN r
    ELSE Ok(BigDiv(BigMul(ONE_18, ONE_18), r.val))

RECURSIVE exp(_)
exp(x) ==
    IF ~(BigLe(MIN_NATURAL_EXPONENT, x) /\ BigLe(x, MAX_NATURAL_EXPONENT))
    THEN Fail("Errors.INVALID_EXPONENT")
    ELSE IF BigLt(x, BZERO) THEN ExpInvert(exp(BigMul(BigInt(-1), x)))
    ELSE Ok(ExpPositive(x))

(***************************************************************************)
(* LogExpMath._ln_36 and LogExpMath._ln                                    *)
(***************************************************************************)
\* the series z + z^3/3 + ... + z^last/last in fixed point with unit one
RECURSIVE LnSeries(_, _, _, _, _, _)
LnSeriesAdd(num, z_squared, seriesSum, d, last, one) ==
    LnSeries(num, z_squared, BigAdd(seriesSum, BigDiv(num, BigInt(d))),
             d + 2, last, one)

LnSeries(num, z_squared, seriesSum, d, last, one) ==
    IF d > last
       \/ ~(Evaluated(num) /\ Evaluated(seriesSum) /\ Evaluated(z_squared))
    THEN seriesSum
    ELSE LnSeriesAdd(BigDiv(BigMul(num, z_squared), one), z_squared,
                     seriesSum, d, last, one)

Ln36Finish(seriesSum) ==
    IF Evaluated(seriesSum) THEN BigMul(seriesSum, BigInt(2)) ELSE seriesSum

Ln36FromZ(z) ==
    IF Evaluated(z)
    THEN Ln36Finish(LnSeries(z, BigDiv(BigMul(z, z), ONE_36), z, 3, 15, ONE_36))
    ELSE z

Ln36Scaled(x) ==
    Ln36FromZ(BigDiv(BigMul(BigSub(x, ONE_36), ONE_36), BigAdd(x, ONE_36)))

_ln_36(x) == Ln36Scaled(BigMul(x, ONE_18))

\* the conditional reductions of a by a_n, n = 2..11
RECURSIVE LnReduce(_, _, _)
LnReduce(a, sum_, n) ==
    IF n > 11 \/ ~(Evaluated(a) /\ Evaluated(sum_))
    THEN [a |-> a, sum |-> sum_]
    ELSE IF BigLe(an(n), a)
    THEN LnReduce(BigDiv(BigMul(a, ONE_20), an(n)), BigAdd(sum_, xn(n)), n + 1)
    ELSE LnReduce(a, sum_, n + 1)

LnFinish(sum_, seriesSum) ==
    IF Evaluated(seriesSum)
    THEN BigDiv(BigAdd(sum_, BigMul(seriesSum, BigInt(2))), BigInt(100))
    ELSE seriesSum

LnFromZ(sum_, z) ==
    IF Evaluated(z)
    THEN LnFinish(sum_, LnSeries(z, BigDiv(BigMul(z, z), ONE_20), z, 3, 11,
                                 ONE_20))
    ELSE z

LnTail(red) ==
    IF Evaluated(red.a)
    THEN LnFromZ(red.sum,
                 BigDiv(BigMul(BigSub(red.a, ONE_20), ONE_20),
                        BigAdd(red.a, ONE_20)))
    ELSE red.a

LnScale(a, sum_) ==
    LnTail(LnReduce(BigMul(a, BigInt(100)), BigMul(sum_, BigInt(100)), 2))

LnStep1(a, sum_) ==
    IF BigLe(BigMul(a1, ONE_18), a)
    THEN LnScale(BigDiv(a, a1), BigAdd(sum_, x1))
    ELSE LnScale(a, sum_)

LnStep0(a) ==
    IF BigLe(BigMul(a0, ONE_18), a) THEN LnStep1(BigDiv(a, a0), x0)
    ELSE LnStep1(a, BZERO)

\* _ln of an a > 0
RECURSIVE _ln(_)
_ln(a) ==
    IF BigLt(a, ONE_18)
    THEN BigMul(BigInt(-1), _ln(BigDiv(BigMul(ONE_18, ONE_18), a)))
    ELSE LnStep0(a)

(***************************************************************************)
(* LogExpMath.pow and SolidityMaths.powUpFixed                             *)
(***************************************************************************)
\* pow that hands the product to exp without checking it
PowCheck_Unchecked(logx_times_y) == exp(logx_times_y)

PowCheck(logx_times_y) ==
    IF Evaluated(logx_times_y)
       /\ BigLe(MIN_NATURAL_EXPONENT, logx_times_y)
       /\ BigLe(logx_times_y, MAX_NATURAL_EXPONENT)
    THEN exp(logx_times_y)
    ELSE Fail("Errors.PRODUCT_OUT_OF_BOUNDS")

PowLn36(ln_36_x, y) ==
    BigAdd(BigMul(BigDiv(ln_36_x, ONE_18), y),
           BigDiv(BigMul(BigMod(ln_36_x, ONE_18), y), ONE_18))

PowLog(x, y) ==
    IF BigLt(LN_36_LOWER_BOUND, x) /\ BigLt(x, LN_36_UPPER_BOUND)
    THEN PowLn36(_ln_36(x), y)
    ELSE BigMul(_ln(x), y)

\* pow that checks the bound on y before the bound on x
pow_ExponentBoundFirst(x, y) ==
    IF y = BZERO THEN Ok(ONE_18)
    ELSE IF x = BZERO THEN Ok(BZERO)
    ELSE IF ~BigLt(y, MILD_EXPONENT_BOUND) THEN Fail("Errors.Y_OUT_OF_BOUNDS")
    ELSE IF ~BigLt(x, X_BOUND) THEN Fail("Errors.X_OUT_OF_BOUNDS")
    ELSE PowCheck(BigDiv(PowLog(x, y), ONE_18))

\* pow that tests x == 0 before y == 0
pow_BaseFirst(x, y) ==
    IF x = BZERO THEN Ok(BZERO)
    ELSE IF y = BZERO THEN Ok(ONE_18)
    ELSE IF ~BigLt(x, X_BOUND) THEN Fail("Errors.X_OUT_OF_BOUNDS")
    ELSE IF ~BigLt(y, MILD_EXPONENT_BOUND) THEN Fail("Errors.Y_OUT_OF_BOUNDS")
    ELSE PowCheck(BigDiv(PowLog(x, y), ONE_18))

\* pow of unsigned 18 decimal fixed point x and y
pow(x, y) ==
    IF y = BZERO THEN Ok(ONE_18)
    ELSE IF x = BZERO THEN Ok(BZERO)
    ELSE IF ~BigLt(x, X_BOUND) THEN Fail("Errors.X_OUT_OF_BOUNDS")
    ELSE IF ~BigLt(y, MILD_EXPONENT_BOUND) THEN Fail("Errors.Y_OUT_OF_BOUNDS")
    ELSE PowCheck(BigDiv(PowLog(x, y), ONE_18))

MAX_POW_RELATIVE_ERROR == BigInt(10000)

PowUpSum(raw, maxError) ==
    IF maxError.err # "none" THEN maxError ELSE add(raw, maxError.val)

PowUpError(raw, m) ==
    IF m.err # "none" THEN m ELSE PowUpSum(raw, add(m.val, BONE))

\* powUpFixed with the margin rounded down
PowUpFromRaw_MulDown(raw) ==
    IF raw.err # "none" THEN raw
    ELSE PowUpError(raw.val, mulDownFixed(raw.val, MAX_POW_RELATIVE_ERROR))

PowUpFromRaw(raw) ==
    IF raw.err # "none" THEN raw
    ELSE PowUpError(raw.val, mulUpFixed(raw.val, MAX_POW_RELATIVE_ERROR))

powUpFixed(x, y) == PowUpFromRaw(pow(x, y))

(***************************************************************************)
(* calcPriceImpact(bptAmount, bptZeroPriceImpact)                          *)
(***************************************************************************)
\* calcPriceImpact that returns zero in place of a negative result
CalcPriceImpactOf_Clamped(q) ==
    IF q.err # "none" THEN q
    ELSE IF BigLt(ONE, q.val) THEN Ok(BZERO)
    ELSE Ok(BigSub(ONE, q.val))

\* ONE - q for the outcome q of divDownFixed
CalcPriceImpactOf(q) ==
    IF q.err # "none" THEN q ELSE Ok(BigSub(ONE, q.val))

calcPriceImpact(bptAmount, bptZeroPriceImpact) ==
    CalcPriceImpactOf(divDownFixed(bptAmount, bptZeroPriceImpact))

(***************************************************************************)
(* Stable-pool invariant: _calculateInvariant(amp, balances, roundUp)      *)
(***************************************************************************)
AMP_PRECISION == BigInt(1000)

\* the iteration budget of the loop  for (let i = 0; i < 255; i++)
MaxIterations == 255

RECURSIVE SumBalances(_, _)
SumBalances(bals, i) ==
    IF i > Len(bals) THEN BZERO ELSE BigAdd(bals[i], SumBalances(bals, i + 1))

\* one logged call of SolidityMaths.div: operands and quotient
DivEntry(site, a, b, r) ==
    IF r.err = "none" THEN <<[site |-> site, a |-> a, b |-> b, q |-> r.val]>> ELSE <<>>

\* the inner loop  for (let j = 1; j < numTokens; j++)  over P_D
RECURSIVE PDLoop(_, _, _, _, _)
PDLoopDiv(bals, inv, ru, j, acc, m1, m2, d) ==
    PDLoop(bals, inv, ru, j + 1,
           [err  |-> FirstErr(<<m1, m2, d>>),
            val  |-> d.val,
            divs |-> acc.divs \o DivEntry("P_D", m2.val, inv, d)])

PDLoopMul2(bals, inv, ru, j, acc, m1, m2) ==
    PDLoopDiv(bals, inv, ru, j, acc, m1, m2, div(m2.val, inv, ru))

PDLoopMul1(bals, inv, ru, j, acc, m1) ==
    PDLoopMul2(bals, inv, ru, j, acc, m1, mul(m1.val, BigInt(Len(bals))))

PDLoop(bals, inv, ru, j, acc) ==
    IF j > Len(bals) \/ acc.err # "none" THEN acc
    ELSE PDLoopMul1(bals, inv, ru, j, acc, mul(acc.val, bals[j]))

\* the denominator's division rounded like every other division
DenominatorRoundUp_Caller(ru) == ru

\* the rounding flag of the division inside the denominator
DenominatorRoundUp(ru) == ~ru

\* the body of the outer loop, statement by statement from LoopBody down to
\* LoopBodyResult: the next iterate computed from invariant
LoopBodyResult(pd, m1, m2, m3, m4, d1, m5, m6, d2, nu, de, d3) ==
    [err  |-> FirstErr(<<pd, m1, m2, m3, m4, d1, m5, m6, d2, d3>>),
     val  |-> d3.val,
     divs |-> pd.divs \o DivEntry("numerator", m4.val, AMP_PRECISION, d1)
                      \o DivEntry("denominator", m6.val, AMP_PRECISION, d2)
                      \o DivEntry("quotient", nu, de, d3)]

LoopBodyQuotient(ru, pd, m1, m2, m3, m4, d1, m5, m6, d2, nu, de) ==
    LoopBodyResult(pd, m1, m2, m3, m4, d1, m5, m6, d2, nu, de, div(nu, de, ru))

LoopBodyTerms(ru, pd, m1, m2, m3, m4, d1, m5, m6, d2) ==
    LoopBodyQuotient(ru, pd, m1, m2, m3, m4, d1, m5, m6, d2,
                     BigAdd(m2.val, d1.val), BigAdd(m5.val, d2.val))

LoopBodyDivs(ru, pd, m1, m2, m3, m4, m5, m6) ==
    LoopBodyTerms(ru, pd, m1, m2, m3, m4, div(m4.val, AMP_PRECISION, ru), m5, m6,
                  div(m6.val, AMP_PRECISION, DenominatorRoundUp(ru)))

\* the update with ampTimesTotal in place of ampTimesTotal - AMP_PRECISION
LoopBodyProducts_FullAmp(ru, inv, ampTimesTotal, pd, m1, m3, m5) ==
    LoopBodyDivs(ru, pd, m1, mul(m1.val, inv), m3, mul(m3.val, pd.val), m5,
                 mul(ampTimesTotal, pd.val))

LoopBodyProducts(ru, inv, ampTimesTotal, pd, m1, m3, m5) ==
    LoopBodyDivs(ru, pd, m1, mul(m1.val, inv), m3, mul(m3.val, pd.val), m5,
                 mul(BigSub(ampTimesTotal, AMP_PRECISION), pd.val))

LoopBodyAmp(bals, ru, s, inv, n, ampTimesTotal) ==
    LoopBodyProducts(ru, inv, ampTimesTotal,
                     PDLoop(bals, inv, ru, 2,
                            [err |-> "none", val |-> BigMul(bals[1], n), divs |-> <<>>]),
                     mul(n, inv), mul(ampTimesTotal, s),
                     mul(BigInt(Len(bals) + 1), inv))

LoopBody(a, bals, ru, s, inv) ==
    LoopBodyAmp(bals, ru, s, inv, BigInt(Len(bals)), BigMul(a, BigInt(Len(bals))))

\* an exit test that accepts a difference of 2
Converged_Tolerance2(prev, inv) ==
    IF BigLt(prev, inv) THEN BigLe(BigSub(inv, prev), BigInt(2))
    ELSE BigLe(BigSub(prev, inv), BigInt(2))

\* the exit test of the loop on the previous and the new iterate
Converged(prev, inv) ==
    IF BigLt(prev, inv) THEN BigLe(BigSub(inv, prev), BONE)
    ELSE BigLe(BigSub(prev, inv), BONE)

(***************************************************************************)
(* _calculateInvariant as a function, and bptSpotPrice                     *)
(***************************************************************************)
\* the outer loop from iteration i on, invariant being the last iterate
RECURSIVE InvariantLoop(_, _, _, _, _, _)
InvariantNext(a, bals, ru, s, inv, i, b) ==
    IF b.err # "none" THEN Fail(b.err)
    ELSE IF Converged(inv, b.val) THEN Ok(b.val)
    ELSE InvariantLoop(a, bals, ru, s, b.val, i + 1)

InvariantLoop(a, bals, ru, s, inv, i) ==
    IF i >= MaxIterations THEN Fail("Errors.STABLE_INVARIANT_DIDNT_CONVERGE")
    ELSE InvariantNext(a, bals, ru, s, inv, i, LoopBody(a, bals, ru, s, inv))

InvariantFromSum(a, bals, ru, s) ==
    IF s = BZERO THEN Ok(BZERO) ELSE InvariantLoop(a, bals, ru, s, s, 0)

_calculateInvariant(a, bals, ru) ==
    InvariantFromSum(a, bals, ru, SumBalances(bals, 1))

\* a / b of JavaScript on BigInt, which throws a RangeError when b is 0
JsDiv(a, b) == IF b = BZERO THEN Fail("RangeError") ELSE Ok(BigDiv(a, b))

\* the loop of bptSpotPrice over the tokens other than tokenIndexIn:
\* S = S + balances[i];  D_P = (D_P * D) / (totalCoins * balances[i])
RECURSIVE SpotLoop(_, _, _, _, _)
SpotLoopStep(balances, D, tokenIndexIn, i, acc, q) ==
    IF q.err # "none" THEN [err |-> q.err, S |-> acc.S, D_P |-> acc.D_P]
    ELSE SpotLoop(balances, D, tokenIndexIn, i + 1,
                  [err |-> "none", S |-> BigAdd(acc.S, balances[i]), D_P |-> q.val])

SpotLoop(balances, D, tokenIndexIn, i, acc) ==
    IF i > Len(balances) \/ acc.err # "none" THEN acc
    ELSE IF i = tokenIndexIn
    THEN SpotLoop(balances, D, tokenIndexIn, i + 1, acc)
    ELSE SpotLoopStep(balances, D, tokenIndexIn, i, acc,
                      JsDiv(BigMul(acc.D_P, D),
                            BigMul(BigInt(Len(balances)), balances[i])))

SpotAnswer(D, q) ==
    IF q.err # "none" THEN q ELSE divUpFixed(q.val, D)

SpotPartials(bptSupply, D, partial_x, minus_partial_D) ==
    SpotAnswer(D, JsDiv(BigMul(partial_x, bptSupply), minus_partial_D))

SpotGreeks(balances, bptSupply, D, x, l, alpha, gamma) ==
    SpotPartials(bptSupply, D,
                 BigAdd(BigAdd(BigMul(BigMul(BigInt(2), alpha), x),
                               BigMul(alpha, l.S)),
                        BigMul(gamma, D)),
                 BigSub(BigMul(BigMul(l.D_P, BigInt(Len(balances) + 1)),
                               AMP_PRECISION),
                        BigMul(gamma, x)))

SpotAlpha(balances, bptSupply, D, x, l, alpha) ==
    IF l.err # "none" THEN Fail(l.err)
    ELSE SpotGreeks(balances, bptSupply, D, x, l, alpha,
                    BigSub(AMP_PRECISION, alpha))

SpotFromD(a, balances, bptSupply, tokenIndexIn, D) ==
    IF D.err # "none" THEN D
    ELSE SpotAlpha(balances, bptSupply, D.val, balances[tokenIndexIn],
                   SpotLoop(balances, D.val, tokenIndexIn, 1,
                            [err |-> "none", S |-> BZERO,
                             D_P |-> BigDiv(D.val, BigInt(Len(balances)))]),
                   BigMul(a, BigInt(Len(balances))))

\* bptSpotPrice of the token at position tokenIndexIn (counted from 1)
bptSpotPrice(a, balances, bptSupply, tokenIndexIn) ==
    SpotFromD(a, balances, bptSupply, tokenIndexIn,
              _calculateInvariant(a, balances, TRUE))

(***************************************************************************)
(* Pool snapshots and parsePoolInfo                                        *)
(*                                                                         *)
(* A pool is the record the SDK receives: poolType, address, tokensList,   *)
(* tokens, amp and totalShares.  A token has address, decimals (0 when the *)
(* field is missing), balance and the optional priceRate and weight.  A    *)
(* decimal string is kept as its whole part and three fractional digits.   *)
(***************************************************************************)
DecStr(whole, milli) == [whole |-> whole, milli |-> milli]

\* a field that is present with value v, and a field that is missing
Some(v) == [has |-> TRUE, val |-> v]

None == [has |-> FALSE, val |-> DecStr(0, 0)]

NoValue == [has |-> FALSE, val |-> BigInt(0)]

\* the number of fractional digits the decimal string s carries
FractionDigits(s) ==
    IF s.milli = 0 THEN 0
    ELSE IF s.milli % 100 = 0 THEN 1
    ELSE IF s.milli % 10 = 0 THEN 2
    ELSE 3

\* bignumber.parseFixed(s, decimals) of @ethersproject/bignumber: the value of
\* s times 10 ** decimals, and a fault when s carries more fractional digits
\* than decimals; missing decimals count as 0
ParseFixed(s, decimals) ==
    IF FractionDigits(s) > decimals
    THEN Fail("fractional component exceeds decimals")
    ELSE Ok(BigDiv(BigMul(BigInt(s.whole * 1000 + s.milli),
                          BigPow(BigInt(10), decimals)),
                   BigInt(1000)))

\* field ? parseFixed(field, decimals) : undefined
ParseOptional(field, decimals) ==
    IF field.has
    THEN [has |-> TRUE, val |-> ParseFixed(field.val, decimals).val]
    ELSE NoValue

\* the error of the first failing parseFixed of parsePoolInfo, which parses
\* the balances first; weights, price rates, amp and totalShares are parsed
\* with 18 or 3 decimals and carry at most three fractional digits
ParsedPool(pool, balances) ==
    [err |-> FirstErr(balances),
     parsedDecimals |-> [i \in 1..Len(pool.tokens) |-> pool.tokens[i].decimals],
     parsedBalances |-> [i \in 1..Len(balances) |-> balances[i].val],
     parsedWeights |->
        [i \in 1..Len(pool.tokens) |-> ParseOptional(pool.tokens[i].weight, 18)],
     parsedPriceRates |->
        [i \in 1..Len(pool.tokens) |->
            ParseOptional(pool.tokens[i].priceRate, 18)],
     parsedAmp |-> ParseOptional(pool.amp, 3),
     parsedTotalShares |-> ParseFixed(pool.totalShares, 18).val]

parsePoolInfo(pool) ==
    ParsedPool(pool,
               [i \in 1..Len(pool.tokens) |->
                   ParseFixed(pool.tokens[i].balance, pool.tokens[i].decimals)])

\* _computeScalingFactor returning ONE for the decimals above 18
_computeScalingFactor_Clamped(tokenDecimals) ==
    IF tokenDecimals > 18 THEN Ok(ONE)
    ELSE Ok(BigMul(ONE, BigPow(BigInt(10), 18 - tokenDecimals)))

\* BigInt(10) ** decimalsDifference throws a RangeError for a negative exponent
_computeScalingFactor(tokenDecimals) ==
    IF 18 - tokenDecimals < 0 THEN Fail("RangeError")
    ELSE Ok(BigMul(ONE, BigPow(BigInt(10), 18 - tokenDecimals)))

_upscale(amount, scalingFactor) == mulDownFixed(amount, scalingFactor)

\* _upscale(amount, _computeScalingFactor(...)): no factor, no amount
UpscaleBy(amount, scalingFactor) ==
    IF scalingFactor.err # "none" THEN Fail(scalingFactor.err)
    ELSE _upscale(amount, scalingFactor.val)

\* the outcomes rs of a map over an array: the first error, or the values
Collect(rs) ==
    [err |-> FirstErr(rs), vals |-> [i \in 1..Len(rs) |-> rs[i].val]]

\* balances.map((balance, i) => _upscale(BigInt(balance), scalingFactors[i]))
UpscaleWith(balances, scalingFactors) ==
    IF scalingFactors.err # "none"
    THEN [err |-> scalingFactors.err, vals |-> <<>>]
    ELSE Collect([i \in 1..Len(balances) |->
                     _upscale(balances[i], scalingFactors.vals[i])])

\* decimals.map((decimals) => _computeScalingFactor(BigInt(decimals))), then
\* the balances upscaled
UpscaleAll(balances, decimals) ==
    UpscaleWith(balances,
                Collect([i \in 1..Len(decimals) |->
                            _computeScalingFactor(decimals[i])]))

\* balances.map((balance, i) => mulDownFixed(balance, priceRates[i]))
ScaleByRates(balances, priceRates) ==
    Collect([i \in 1..Len(balances) |-> mulDownFixed(balances[i], priceRates[i])])

\* array.splice(index, 1) with index counted from 1; index 0 stands for the
\* -1 of a failed findIndex, and splice(-1, 1) removes the last element
Splice(array, index) ==
    IF Len(array) = 0 THEN array
    ELSE IF index = 0 THEN SubSeq(array, 1, Len(array) - 1)
    ELSE SubSeq(array, 1, index - 1) \o SubSeq(array, index + 1, Len(array))

\* tokensList.findIndex((token) => token == pool.address), counted from 1
BptIndex(pool) ==
    IF \E i \in 1..Len(pool.tokensList) : pool.tokensList[i] = pool.address
    THEN CHOOSE i \in 1..Len(pool.tokensList) :
            /\ pool.tokensList[i] = pool.address
            /\ \A j \in 1..(i - 1) : pool.tokensList[j] # pool.address
    ELSE 0

(***************************************************************************)
(* bptZeroPriceImpact of the pool types                                    *)
(***************************************************************************)
\* the loop of WeightedPoolPriceImpact.bptZeroPriceImpact from token i on
RECURSIVE WeightedLoop(_, _, _, _, _)
WeightedTerm(info, tokenAmounts, totalShares, i, acc, price, amountUpscaled) ==
    IF price.err # "none" THEN Fail(price.err)
    ELSE IF amountUpscaled.err # "none" THEN Fail(amountUpscaled.err)
    ELSE WeightedLoop(info, tokenAmounts, totalShares, i + 1,
                      Ok(BigAdd(acc.val,
                                BigDiv(BigMul(price.val, amountUpscaled.val),
                                       ONE))))

WeightedPrice(info, tokenAmounts, totalShares, i, acc, scalingFactor, balance) ==
    IF balance.err # "none" THEN Fail(balance.err)
    ELSE WeightedTerm(info, tokenAmounts, totalShares, i, acc,
                      JsDiv(BigMul(info.parsedWeights[i].val, totalShares),
                            balance.val),
                      _upscale(tokenAmounts[i], scalingFactor))

WeightedToken(info, tokenAmounts, totalShares, i, acc, scalingFactor) ==
    IF scalingFactor.err # "none" THEN Fail(scalingFactor.err)
    ELSE WeightedPrice(info, tokenAmounts, totalShares, i, acc,
                       scalingFactor.val,
                       _upscale(info.parsedBalances[i], scalingFactor.val))

WeightedLoop(info, tokenAmounts, totalShares, i, acc) ==
    IF i > Len(info.parsedDecimals) \/ acc.err # "none" THEN acc
    ELSE IF info.parsedDecimals[i] = 0 THEN Fail("MISSING_DECIMALS")
    ELSE IF ~info.parsedWeights[i].has THEN Fail("MISSING_WEIGHT")
    ELSE WeightedToken(info, tokenAmounts, totalShares, i, acc,
                       _computeScalingFactor(info.parsedDecimals[i]))

WeightedParsed(info, tokenAmounts) ==
    IF info.err # "none" THEN Fail(info.err)
    ELSE WeightedLoop(info, tokenAmounts, info.parsedTotalShares, 1, Ok(BZERO))

Weighted_bptZeroPriceImpact(pool, tokenAmounts) ==
    IF Len(tokenAmounts) # Len(pool.tokensList)
    THEN Fail("INPUT_LENGTH_MISMATCH")
    ELSE WeightedParsed(parsePoolInfo(pool), tokenAmounts)

\* the loop shared by the stable pool types, from token i on:
\*   price = bptSpotPrice(amp, balances, totalShares, i), times priceRates[i]
\*           / ONE when the pool type has price rates
\*   bptZeroPriceImpact += (price * _upscale(tokenAmounts[i], ...)) / ONE
RECURSIVE StableLoop(_, _, _, _, _, _, _, _, _)
StableTerm(a, balances, totalShares, priceRates, decimals, tokenAmounts, count, i, acc, price, amountUpscaled) ==
    IF amountUpscaled.err # "none" THEN Fail(amountUpscaled.err)
    ELSE StableLoop(a, balances, totalShares, priceRates, decimals,
                    tokenAmounts, count, i + 1,
                    Ok(BigAdd(acc.val,
                              BigDiv(BigMul(price, amountUpscaled.val), ONE))))

StablePrice(a, balances, totalShares, priceRates, decimals, tokenAmounts, count, i, acc, spot) ==
    IF spot.err # "none" THEN Fail(spot.err)
    ELSE StableTerm(a, balances, totalShares, priceRates, decimals,
                    tokenAmounts, count, i, acc,
                    IF priceRates = <<>> THEN spot.val
                    ELSE BigDiv(BigMul(spot.val, priceRates[i]), ONE),
                    UpscaleBy(tokenAmounts[i],
                              _computeScalingFactor(decimals[i])))

StableLoop(a, balances, totalShares, priceRates, decimals, tokenAmounts, count, i, acc) ==
    IF i > count \/ acc.err # "none" THEN acc
    ELSE StablePrice(a, balances, totalShares, priceRates, decimals,
                     tokenAmounts, count, i, acc,
                     bptSpotPrice(a, balances, totalShares, i))

\* the values of the optional fields of an array, all of them present
Values(fields) == [i \in 1..Len(fields) |-> fields[i].val]

AnyMissingDecimals(info) ==
    \E i \in 1..Len(info.parsedDecimals) : info.parsedDecimals[i] = 0

AnyMissingPriceRate(info) ==
    \E i \in 1..Len(info.parsedPriceRates) : ~info.parsedPriceRates[i].has

StableBalances(info, tokenAmounts, balances) ==
    IF balances.err # "none" THEN Fail(balances.err)
    ELSE StableLoop(info.parsedAmp.val, balances.vals, info.parsedTotalShares,
                    <<>>, info.parsedDecimals, tokenAmounts,
                    Len(balances.vals), 1, Ok(BZERO))

StableParsed(info, tokenAmounts) ==
    IF info.err # "none" THEN Fail(info.err)
    ELSE IF AnyMissingDecimals(info) THEN Fail("MISSING_DECIMALS")
    ELSE IF ~info.parsedAmp.has THEN Fail("MISSING_PRICE_RATE")
    ELSE StableBalances(info, tokenAmounts,
                        UpscaleAll(info.parsedBalances, info.parsedDecimals))

\* Stable_bptZeroPriceImpact with the length check moved after parsePoolInfo
Stable_bptZeroPriceImpact_ParseFirst(pool, tokenAmounts) ==
    IF parsePoolInfo(pool).err # "none" THEN Fail(parsePoolInfo(pool).err)
    ELSE IF Len(tokenAmounts) # Len(pool.tokensList)
    THEN Fail("INPUT_LENGTH_MISMATCH")
    ELSE StableParsed(parsePoolInfo(pool), tokenAmounts)

Stable_bptZeroPriceImpact(pool, tokenAmounts) ==
    IF Len(tokenAmounts) # Len(pool.tokensList)
    THEN Fail("INPUT_LENGTH_MISMATCH")
    ELSE StableParsed(parsePoolInfo(pool), tokenAmounts)

MetaStableScaled(info, tokenAmounts, balancesScaled) ==
    IF balancesScaled.err # "none" THEN Fail(balancesScaled.err)
    ELSE StableLoop(info.parsedAmp.val, balancesScaled.vals,
                    info.parsedTotalShares, Values(info.parsedPriceRates),
                    info.parsedDecimals, tokenAmounts,
                    Len(balancesScaled.vals), 1, Ok(BZERO))

MetaStableBalances(info, tokenAmounts, balances) ==
    IF balances.err # "none" THEN Fail(balances.err)
    ELSE MetaStableScaled(info, tokenAmounts,
                          ScaleByRates(balances.vals,
                                       Values(info.parsedPriceRates)))

MetaStableParsed(info, tokenAmounts) ==
    IF info.err # "none" THEN Fail(info.err)
    ELSE IF AnyMissingDecimals(info) THEN Fail("MISSING_DECIMALS")
    ELSE IF AnyMissingPriceRate(info) THEN Fail("MISSING_PRICE_RATE")
    ELSE IF ~info.parsedAmp.has THEN Fail("MISSING_PRICE_RATE")
    ELSE MetaStableBalances(info, tokenAmounts,
                            UpscaleAll(info.parsedBalances, info.parsedDecimals))

MetaStable_bptZeroPriceImpact(pool, tokenAmounts) ==
    IF Len(tokenAmounts) # Len(pool.tokensList)
    THEN Fail("INPUT_LENGTH_MISMATCH")
    ELSE MetaStableParsed(parsePoolInfo(pool), tokenAmounts)

\* the loop of StablePhantomPriceImpact.bptZeroPriceImpact over the tokens
\* of tokensList, position i combining balances[i], priceRates[i],
\* decimals[i] and tokenAmounts[i]
PhantomScaled(info, tokenAmounts, tokensList, priceRates, decimals, balancesScaled) ==
    IF balancesScaled.err # "none" THEN Fail(balancesScaled.err)
    ELSE StableLoop(info.parsedAmp.val, balancesScaled.vals,
                    info.parsedTotalShares, priceRates, decimals, tokenAmounts,
                    Len(tokensList), 1, Ok(BZERO))

PhantomCombine(info, tokenAmounts, tokensList, balances, priceRates, decimals) ==
    PhantomScaled(info, tokenAmounts, tokensList, priceRates, decimals,
                  ScaleByRates(balances, priceRates))

\* tokensList and balances lose the entry at bptIndex; priceRates and
\* decimals stay as parsed
PhantomBalances(info, tokenAmounts, bptIndex, tokensList, balances) ==
    IF balances.err # "none" THEN Fail(balances.err)
    ELSE IF Len(tokenAmounts) # Len(tokensList)
    THEN Fail("INPUT_LENGTH_MISMATCH")
    ELSE PhantomCombine(info, tokenAmounts, tokensList,
                        Splice(balances.vals, bptIndex),
                        Values(info.parsedPriceRates), info.parsedDecimals)

PhantomParsed(pool, info, tokenAmounts, bptIndex) ==
    IF info.err # "none" THEN Fail(info.err)
    ELSE IF AnyMissingDecimals(info) THEN Fail("MISSING_DECIMALS")
    ELSE IF AnyMissingPriceRate(info) THEN Fail("MISSING_PRICE_RATE")
    ELSE IF ~info.parsedAmp.has THEN Fail("MISSING_PRICE_RATE")
    ELSE PhantomBalances(info, tokenAmounts, bptIndex,
                         Splice(pool.tokensList, bptIndex),
                         UpscaleAll(info.parsedBalances, info.parsedDecimals))

StablePhantom_bptZeroPriceImpact(pool, tokenAmounts) ==
    IF Len(tokenAmounts) # Len(pool.tokensList) - 1
    THEN Fail("INPUT_LENGTH_MISMATCH")
    ELSE PhantomParsed(pool, parsePoolInfo(pool), tokenAmounts, BptIndex(pool))

Linear_bptZeroPriceImpact(pool, tokenAmounts) ==
    Fail("Linear Pool bptZeroPriceImpact Not Implented")

\* PoolTypeConcerns.from(pool.poolType).priceImpactCalculator
\*     .bptZeroPriceImpact(pool, tokenAmounts)
PriceImpact_bptZeroPriceImpact(pool, tokenAmounts) ==
    CASE pool.poolType \in {"Weighted", "Investment", "LiquidityBootstrapping"} ->
            Weighted_bptZeroPriceImpact(pool, tokenAmounts)
      [] pool.poolType = "Stable" -> Stable_bptZeroPriceImpact(pool, tokenAmounts)
      [] pool.poolType = "MetaStable" ->
            MetaStable_bptZeroPriceImpact(pool, tokenAmounts)
      [] pool.poolType = "StablePhantom" ->
            StablePhantom_bptZeroPriceImpact(pool, tokenAmounts)
      [] pool.poolType \in {"AaveLinear", "ERC4626Linear"} ->
            Linear_bptZeroPriceImpact(pool, tokenAmounts)
      [] OTHER -> Fail("UNSUPPORTED_POOL_TYPE")

\* calcPriceImpact(BigInt(bptAmount), bptZeroPriceImpact), the second argument
\* being the outcome z of this.bptZeroPriceImpact
ImpactFromZero(bptAmount, z) ==
    IF z.err # "none" THEN Fail(z.err) ELSE calcPriceImpact(bptAmount, z.val)

\* PoolTypeConcerns.from(pool.poolType).priceImpactCalculator
\*     .calcPriceImpact(pool, tokenAmounts, bptAmount); the result is the
\* number whose decimal digits the source returns
PriceImpact_calcPriceImpact(pool, tokenAmounts, bptAmount) ==
    IF pool.poolType \in {"AaveLinear", "ERC4626Linear"}
    THEN Fail("Linear Pool Price Impact Not Implented")
    ELSE ImpactFromZero(bptAmount,
                        PriceImpact_bptZeroPriceImpact(pool, tokenAmounts))

(***************************************************************************)
(* buildJoin of StablePoolJoin and MetaStablePoolJoin                      *)
(***************************************************************************)
\* MetaStablePoolJoin's validations with the amp test moved first
JoinValidation_AmpFirst(pool, tokensIn, amountsIn, rated) ==
    IF ~pool.amp.has THEN "MISSING_AMP"
    ELSE IF Len(tokensIn) # Len(amountsIn) \/ Len(tokensIn) # Len(pool.tokensList)
    THEN "INPUT_LENGTH_MISMATCH"
    ELSE IF \E i \in 1..Len(pool.tokens) : pool.tokens[i].decimals = 0
    THEN "MISSING_DECIMALS"
    ELSE IF rated /\ \E i \in 1..Len(pool.tokens) : ~pool.tokens[i].priceRate.has
    THEN "MISSING_PRICE_RATE"
    ELSE "none"

\* the validations at the head of buildJoin: the code of the first one that
\* fails; rated is true for MetaStablePoolJoin, which also tests price rates
JoinValidation(pool, tokensIn, amountsIn, rated) ==
    IF Len(tokensIn) # Len(amountsIn) \/ Len(tokensIn) # Len(pool.tokensList)
    THEN "INPUT_LENGTH_MISMATCH"
    ELSE IF \E i \in 1..Len(pool.tokens) : pool.tokens[i].decimals = 0
    THEN "MISSING_DECIMALS"
    ELSE IF ~pool.amp.has THEN "MISSING_AMP"
    ELSE IF rated /\ \E i \in 1..Len(pool.tokens) : ~pool.tokens[i].priceRate.has
    THEN "MISSING_PRICE_RATE"
    ELSE "none"

\* the outcomes of buildJoin once parsePoolInfo has run: the expected BPT
\* amount, the user data and the call data come from packages outside the
\* source, which return or throw
JoinParsed(info) ==
    IF info.err # "none"
    THEN {[err |-> info.err, parsed |-> TRUE, attributes |-> FALSE]}
    ELSE {[err |-> "none", parsed |-> TRUE, attributes |-> TRUE],
          [err |-> "Error", parsed |-> TRUE, attributes |-> FALSE]}

\* the outcomes of buildJoin: its error, whether parsePoolInfo ran and
\* whether transaction attributes were returned
JoinValidated(pool, code) ==
    IF code # "none"
    THEN {[err |-> code, parsed |-> FALSE, attributes |-> FALSE]}
    ELSE JoinParsed(parsePoolInfo(pool))

StablePoolJoin_buildJoin(pool, tokensIn, amountsIn) ==
    JoinValidated(pool, JoinValidation(pool, tokensIn, amountsIn, FALSE))

MetaStablePoolJoin_buildJoin(pool, tokensIn, amountsIn) ==
    JoinValidated(pool, JoinValidation(pool, tokensIn, amountsIn, TRUE))

\* PoolTypeConcerns.from(pool.poolType).join.buildJoin of the two pool types
Join_buildJoin(pool, tokensIn, amountsIn) ==
    IF pool.poolType = "MetaStable"
    THEN MetaStablePoolJoin_buildJoin(pool, tokensIn, amountsIn)
    ELSE StablePoolJoin_buildJoin(pool, tokensIn, amountsIn)

(***************************************************************************)
(* Liquidity: calcTotal of the pool types and Liquidity.getLiquidity       *)
(*                                                                         *)
(* A token handed to calcTotal carries the price found for it: price.has   *)
(* says that price.usd is there.  Amounts are fixed-point numbers of 18    *)
(* decimals, and values (balance times price) have 36 decimals.            *)
(***************************************************************************)
\* the match of [0-9]+\.?[0-9]{0,decimals} in the decimal string s: s cut to
\* decimals fractional digits
TrimDecimals(s, decimals) ==
    IF decimals >= 3 THEN s
    ELSE DecStr(s.whole,
                (s.milli \div (10 ^ (3 - decimals))) * (10 ^ (3 - decimals)))

\* parseFixed(value, decimals) of the source: the string cut to decimals
\* fractional digits, handed to bignumber.parseFixed
parseFixed(value, decimals) == ParseFixed(TrimDecimals(value, decimals), decimals)

ParseFixedTrimmed(s, decimals) == parseFixed(s, decimals).val

\* !(token.price?.usd) is false
HasPrice(token) == token.price.has /\ token.price.val # DecStr(0, 0)

TokenBalanceOf(token) == ParseFixedTrimmed(token.balance, 18)

TokenPriceOf(token) == ParseFixedTrimmed(token.price.val, 18)

\* parseFixed(token.weight || '0', 18)
TokenWeightOf(token) ==
    IF token.weight.has THEN ParseFixedTrimmed(token.weight.val, 18) ELSE BZERO

\* parseFixed(token.priceRate || '1', 18)
TokenRateOf(token) ==
    IF token.priceRate.has THEN ParseFixedTrimmed(token.priceRate.val, 18)
    ELSE ONE

\* the sum of the numbers of a sequence
RECURSIVE SumFrom(_, _)
SumFrom(values, i) ==
    IF i > Len(values) THEN BZERO
    ELSE BigAdd(values[i], SumFrom(values, i + 1))

\* first loop of calcTotal: value and balance of the tokens with a price
PricedValue(tokens) ==
    SumFrom([i \in 1..Len(tokens) |->
                IF HasPrice(tokens[i])
                THEN BigMul(TokenBalanceOf(tokens[i]), TokenPriceOf(tokens[i]))
                ELSE BZERO], 1)

PricedBalance(tokens) ==
    SumFrom([i \in 1..Len(tokens) |->
                IF HasPrice(tokens[i]) THEN TokenBalanceOf(tokens[i])
                ELSE BZERO], 1)

\* second loop of calcTotal: the tokens without a price valued at avgPrice,
\* their balance scaled by the price rate where rated is true
UnpricedValue(tokens, avgPrice, rated) ==
    SumFrom([i \in 1..Len(tokens) |->
                IF HasPrice(tokens[i]) THEN BZERO
                ELSE IF rated
                THEN BigMul(BigDiv(BigMul(TokenBalanceOf(tokens[i]),
                                          TokenRateOf(tokens[i])), ONE),
                            avgPrice)
                ELSE BigMul(TokenBalanceOf(tokens[i]), avgPrice)], 1)

StableSums(tokens, sumValue, sumBalance, rated) ==
    IF BigLt(BZERO, sumBalance)
    THEN Ok(BigAdd(sumValue,
                   UnpricedValue(tokens, BigDiv(sumValue, sumBalance), rated)))
    ELSE Ok(sumValue)

\* calcTotal of StablePoolLiquidity and MetaStablePoolLiquidity: sumValue
StablePoolLiquidity_calcTotal(tokens) ==
    StableSums(tokens, PricedValue(tokens), PricedBalance(tokens), FALSE)

\* LinearPoolLiquidity.calcTotal with the body of LinearPriceImpact
LinearPoolLiquidity_calcTotal_NotImplemented(tokens) ==
    Fail("Linear Pool Liquidity Not Implemented")

LinearPoolLiquidity_calcTotal(tokens) ==
    StableSums(tokens, PricedValue(tokens), PricedBalance(tokens), TRUE)

WeightedSums(sumValue, sumWeight, totalWeight) ==
    IF BigLt(BZERO, sumWeight)
    THEN Ok(BigDiv(BigMul(sumValue, totalWeight), sumWeight))
    ELSE Ok(BZERO)

WeightedPoolLiquidity_calcTotal(tokens) ==
    WeightedSums(PricedValue(tokens),
                 SumFrom([i \in 1..Len(tokens) |->
                             IF HasPrice(tokens[i]) THEN TokenWeightOf(tokens[i])
                             ELSE BZERO], 1),
                 SumFrom([i \in 1..Len(tokens) |-> TokenWeightOf(tokens[i])], 1))

StablePhantomPoolLiquidity_calcTotal(tokens) ==
    IF Len(tokens) > 0
    THEN Fail("Not Implemented - StablePhantom liquidity should all come from sub-pools.")
    ELSE Ok(BZERO)

\* PoolTypeConcerns.from(poolType).liquidity.calcTotal(tokens): the value
\* whose digits, with 36 decimals, the source returns
Liquidity_calcTotal(poolType, tokens) ==
    CASE poolType \in {"Weighted", "Investment", "LiquidityBootstrapping"} ->
            WeightedPoolLiquidity_calcTotal(tokens)
      [] poolType \in {"Stable", "MetaStable"} ->
            StablePoolLiquidity_calcTotal(tokens)
      [] poolType = "StablePhantom" -> StablePhantomPoolLiquidity_calcTotal(tokens)
      [] poolType \in {"AaveLinear", "ERC4626Linear"} ->
            LinearPoolLiquidity_calcTotal(tokens)
      [] OTHER -> Fail("UNSUPPORTED_POOL_TYPE")

\* parseFixed(tokenLiquidity, SCALE) of the string calcTotal returns: its 36
\* decimals cut to 18
ParseTotal(total) == BigDiv(total, ONE)

\* CoingeckoPriceRepository.find(address) on a repository that holds no
\* prices yet: the request for the address returns a price, returns no data,
\* or fails; a failed request is caught and leaves the prices as they were
CoingeckoFind(feed, address) ==
    IF feed[address].status = "ok" THEN Some(feed[address].usd) ELSE None

\* the poolToken built for calcTotal
PricedToken(token, price) ==
    [address |-> token.address, decimals |-> token.decimals,
     priceRate |-> token.priceRate, price |-> price,
     balance |-> token.balance, weight |-> token.weight]

\* pool.tokens.filter((token) => token.address !== pool.address)
RECURSIVE WithoutOwnBpt(_, _, _)
WithoutOwnBpt(tokens, address, i) ==
    IF i > Len(tokens) THEN <<>>
    ELSE IF tokens[i].address = address THEN WithoutOwnBpt(tokens, address, i + 1)
    ELSE <<tokens[i]>> \o WithoutOwnBpt(tokens, address, i + 1)

\* the reduce over subPoolLiquidity from entry i on: an entry that is not a
\* sub-pool sets the total back to 0
RECURSIVE TotalSubPoolLiquidity(_, _, _)
TotalSubPoolLiquidity(subPoolLiquidity, i, totalLiquidity) ==
    IF i > Len(subPoolLiquidity) THEN totalLiquidity
    ELSE IF ~subPoolLiquidity[i].isPool
    THEN TotalSubPoolLiquidity(subPoolLiquidity, i + 1, BZERO)
    ELSE TotalSubPoolLiquidity(subPoolLiquidity, i + 1,
                               BigAdd(totalLiquidity,
                                      subPoolLiquidity[i].liquidity))

\* parsedTokens.filter((token) => !subPoolLiquidity.find(
\*     (pool) => pool?.address === token.address))
RECURSIVE NonPoolTokens(_, _, _)
NonPoolTokens(tokens, subPoolLiquidity, i) ==
    IF i > Len(tokens) THEN <<>>
    ELSE IF \E j \in 1..Len(subPoolLiquidity) :
                /\ subPoolLiquidity[j].isPool
                /\ subPoolLiquidity[j].address = tokens[i].address
    THEN NonPoolTokens(tokens, subPoolLiquidity, i + 1)
    ELSE <<tokens[i]>> \o NonPoolTokens(tokens, subPoolLiquidity, i + 1)

\* an entry of subPoolLiquidity: undefined for a token that is no pool, else
\* the sub-pool's address and liquidity * bptInParentPool / totalBPT; errs
\* holds the error when the look-up, the recursion or the division throws
NoSubPool == [isPool |-> FALSE, errs |-> {}, address |-> "", liquidity |-> BZERO]

SubPoolFailed(errs) ==
    [isPool |-> TRUE, errs |-> errs, address |-> "", liquidity |-> BZERO]

SubPoolShare(subPool, token, liquidity, totalBPT) ==
    IF liquidity.errs # {} THEN SubPoolFailed(liquidity.errs)
    ELSE IF totalBPT = BZERO THEN SubPoolFailed({"division-by-zero"})
    ELSE [isPool |-> TRUE, errs |-> {}, address |-> subPool.address,
          liquidity |-> BigDiv(BigMul(liquidity.val, TokenBalanceOf(token)),
                               totalBPT)]

\* Liquidity.getLiquidity(pool) with the pools repository repo and the price
\* repository feed: the value whose digits, with 18 decimals, the source
\* returns, or the errors one of which rejects the call
RECURSIVE getLiquidity(_, _, _)
SubPoolEntry(repo, feed, token) ==
    IF repo[token.address].status = "failed"
    THEN SubPoolFailed({"pool look-up failed"})
    ELSE IF repo[token.address].status = "none" THEN NoSubPool
    ELSE SubPoolShare(repo[token.address].pool, token,
                      getLiquidity(repo, feed, repo[token.address].pool),
                      ParseFixedTrimmed(repo[token.address].pool.totalShares, 18))

LiquidityTotal(totalSubPoolLiquidity, tokenLiquidity) ==
    IF tokenLiquidity.err # "none"
    THEN [errs |-> {tokenLiquidity.err}, val |-> BZERO]
    ELSE [errs |-> {},
          val |-> BigAdd(totalSubPoolLiquidity, ParseTotal(tokenLiquidity.val))]

LiquidityOfTokens(feed, pool, subPoolLiquidity, nonPoolTokens) ==
    LiquidityTotal(TotalSubPoolLiquidity(subPoolLiquidity, 1, BZERO),
                   Liquidity_calcTotal(pool.poolType,
                       [i \in 1..Len(nonPoolTokens) |->
                           PricedToken(nonPoolTokens[i],
                                       CoingeckoFind(feed,
                                                     nonPoolTokens[i].address))]))

LiquidityOfSubPools(feed, pool, parsedTokens, subPoolLiquidity) ==
    IF \E i \in 1..Len(subPoolLiquidity) : subPoolLiquidity[i].errs # {}
    THEN [errs |-> UNION {subPoolLiquidity[i].errs : i \in 1..Len(subPoolLiquidity)},
          val |-> BZERO]
    ELSE LiquidityOfTokens(feed, pool, subPoolLiquidity,
                           NonPoolTokens(parsedTokens, subPoolLiquidity, 1))

LiquidityOfParsed(repo, feed, pool, parsedTokens) ==
    LiquidityOfSubPools(feed, pool, parsedTokens,
                        [i \in 1..Len(parsedTokens) |->
                            SubPoolEntry(repo, feed, parsedTokens[i])])

getLiquidity(repo, feed, pool) ==
    LiquidityOfParsed(repo, feed, pool,
                      WithoutOwnBpt(pool.tokens, pool.address, 1))

(***************************************************************************)
(* PoolTypeConcerns.from and the methods of Pools that wrap pools          *)
(***************************************************************************)
\* PoolTypeConcerns.from with the Weighted handlers as the default
PoolTypeConcerns_from_DefaultWeighted(poolType) ==
    CASE poolType \in {"Stable", "MetaStable", "StablePhantom"} ->
            [err |-> "none", handlers |-> poolType]
      [] poolType \in {"AaveLinear", "ERC4626Linear"} ->
            [err |-> "none", handlers |-> "Linear"]
      [] OTHER -> [err |-> "none", handlers |-> "Weighted"]

\* PoolTypeConcerns.from(poolType): the class whose handlers it returns
PoolTypeConcerns_from(poolType) ==
    CASE poolType \in {"Weighted", "Investment", "LiquidityBootstrapping"} ->
            [err |-> "none", handlers |-> "Weighted"]
      [] poolType = "Stable" -> [err |-> "none", handlers |-> "Stable"]
      [] poolType = "MetaStable" -> [err |-> "none", handlers |-> "MetaStable"]
      [] poolType = "StablePhantom" ->
            [err |-> "none", handlers |-> "StablePhantom"]
      [] poolType \in {"AaveLinear", "ERC4626Linear"} ->
            [err |-> "none", handlers |-> "Linear"]
      [] OTHER -> [err |-> "UNSUPPORTED_POOL_TYPE", handlers |-> ""]

\* list.map((data) => Pools.wrap(data, networkConfig)) from pool i on: the
\* first pool that cannot be wrapped ends the call
RECURSIVE WrapAll(_, _, _)
WrapAll(list, i, acc) ==
    IF i > Len(list) THEN [err |-> "none", handlers |-> acc]
    ELSE IF PoolTypeConcerns_from(list[i]).err # "none"
    THEN [err |-> PoolTypeConcerns_from(list[i]).err, handlers |-> <<>>]
    ELSE WrapAll(list, i + 1,
                 Append(acc, PoolTypeConcerns_from(list[i]).handlers))

\* Pools.wrap(pool, networkConfig)
Pools_wrap(poolType) == WrapAll(<<poolType>>, 1, <<>>)

\* Pools.find(id): undefined without data, the wrapped pool otherwise
Pools_find(data) == WrapAll(data, 1, <<>>)

\* Pools.all() and Pools.where(filter): every pool of the list wrapped
Pools_all(list) == WrapAll(list, 1, <<>>)

(***************************************************************************)
(* PoolsFallbackRepository.fallbackQuery                                   *)
(***************************************************************************)
\* the catch block leaving the index of the current provider as it is
NextProviderIdx_Same(idx) == idx

\* this.currentProviderIdx++
NextProviderIdx(idx) == idx + 1

\* fallbackQuery up to its await, for a query sent so far to the providers of
\* sent: it throws when no provider is left, and otherwise calls the provider
\* at the current index (indices count from 0) and waits for the race
FallbackQuery(length, idx, sent) ==
    IF idx >= length
    THEN [pc |-> "threw", provider |-> idx,
          err |-> "No working providers found", sent |-> sent]
    ELSE [pc |-> "waiting", provider |-> idx, err |-> "none",
          sent |-> Append(sent, idx)]

(***************************************************************************)
(* SingleSwapBuilder and BatchSwapBuilder                                  *)
(*                                                                         *)
(* A value passed as deadline is a BigNumber or a number n, or a string of *)
(* n characters; a maxSlippage is an integer bps or not an integer.        *)
(***************************************************************************)
\* amountForLimit(amount).max(maxSlippage) and .min(maxSlippage)
amountForLimit_max(amount, maxSlippage) ==
    BigDiv(BigMul(amount, BigInt(1000 + maxSlippage)), BigInt(1000))

amountForLimit_min(amount, maxSlippage) ==
    BigDiv(BigMul(amount, BigInt(1000 - maxSlippage)), BigInt(1000))

\* decorateSorSwapInfo: amountInForLimits and amountOutForLimits
AmountInForLimits(kind, info) ==
    IF kind = "SwapExactIn" THEN info.swapAmount ELSE info.returnAmount

AmountOutForLimits(kind, info) ==
    IF kind = "SwapExactIn" THEN info.returnAmount ELSE info.swapAmount

\* the limit of SingleSwapBuilder.setLimits
SingleSwapBuilder_setLimits(kind, info, maxSlippage) ==
    IF kind = "SwapExactIn"
    THEN <<amountForLimit_min(AmountOutForLimits(kind, info), maxSlippage)>>
    ELSE <<amountForLimit_max(AmountInForLimits(kind, info), maxSlippage)>>

BatchSwapBuilder_minAmountOut(kind, info, maxSlippage) ==
    IF kind = "SwapExactIn"
    THEN amountForLimit_min(AmountOutForLimits(kind, info), maxSlippage)
    ELSE AmountOutForLimits(kind, info)

BatchSwapBuilder_maxAmountIn(kind, info, maxSlippage) ==
    IF kind = "SwapExactOut"
    THEN amountForLimit_max(AmountInForLimits(kind, info), maxSlippage)
    ELSE AmountInForLimits(kind, info)

\* the limits of BatchSwapBuilder.setLimits for the assets of tokenAddresses
BatchSwapBuilder_setLimits(kind, info, maxSlippage, tokenAddresses) ==
    [i \in 1..Len(tokenAddresses) |->
        IF tokenAddresses[i] = "tokenOut"
        THEN BigNeg(BatchSwapBuilder_minAmountOut(kind, info, maxSlippage))
        ELSE IF tokenAddresses[i] = "tokenIn"
        THEN BatchSwapBuilder_maxAmountIn(kind, info, maxSlippage)
        ELSE BZERO]

\* the number of characters of n.toString(), for n >= 0
RECURSIVE DigitCount(_)
DigitCount(n) == IF n < 10 THEN 1 ELSE 1 + DigitCount(n \div 10)

\* deadline.toString()
DeadlineToString(arg) ==
    IF arg.kind = "string" THEN arg
    ELSE [kind |-> "string", n |-> DigitCount(arg.n)]

\* what setDeadline stores
StoredDeadline(which, arg) ==
    IF which = "single" THEN DeadlineToString(arg) ELSE arg

\* the value converts to true
Truthy(v) ==
    CASE v.kind = "BigNumber" -> TRUE
      [] v.kind = "number" -> v.n # 0
      [] v.kind = "string" -> v.n # 0
      [] OTHER -> FALSE

\* the test of attributes() taking every value other than undefined as set
Uninitialized_UndefinedOnly(f, l, d) ==
    ~f \/ ~l.set \/ d.kind = "undefined"

\* !this.funds || !this.limit || !this.deadline
Uninitialized(f, l, d) == ~f \/ ~l.set \/ ~Truthy(d)

(***************************************************************************)
(* toNormalizedWeights and isNormalizedWeights                             *)
(***************************************************************************)
MaxWeightedTokens == 100

\* constants.WeiPerEther
WeiPerEther == ONE

\* weights.reduce((total, weight) => total.add(weight), Zero) over the
\* positions lo..hi, added up by halves
RECURSIVE SumRange(_, _, _)
SumRange(ws, lo, hi) ==
    IF lo > hi THEN BZERO
    ELSE IF lo = hi THEN ws[lo]
    ELSE BigAdd(SumRange(ws, lo, (lo + hi) \div 2),
                SumRange(ws, (lo + hi) \div 2 + 1, hi))

SumWeights(ws) == SumRange(ws, 1, Len(ws))

\* the last weight as normalized as the others are
LastWeight_Scaled(ws, wsum, nsum) ==
    BigDiv(BigMul(ws[Len(ws)], WeiPerEther), wsum)

\* the last normalized weight: WeiPerEther.sub(normalizedSum)
LastWeight(ws, wsum, nsum) == BigSub(WeiPerEther, nsum)

\* the loop of toNormalizedWeights from index i on: acc holds the weights
\* normalized so far and nsum their sum
RECURSIVE NormalizeFrom(_, _, _, _, _)
NormalizeFrom(ws, wsum, i, acc, nsum) ==
    IF i > Len(ws) THEN acc
    ELSE IF i < Len(ws)
    THEN LET w == BigDiv(BigMul(ws[i], WeiPerEther), wsum)
         IN  NormalizeFrom(ws, wsum, i + 1, Append(acc, w), BigAdd(nsum, w))
    ELSE Append(acc, LastWeight(ws, wsum, nsum))

toNormalizedWeights(ws) ==
    IF Len(ws) = MaxWeightedTokens
    THEN [i \in 1..MaxWeightedTokens |->
             BigDiv(WeiPerEther, BigInt(MaxWeightedTokens))]
    ELSE LET wsum == SumWeights(ws)
         IN  IF wsum = WeiPerEther THEN ws
             ELSE NormalizeFrom(ws, wsum, 1, <<>>, BZERO)

isNormalizedWeights(ws) == SumWeights(ws) = WeiPerEther

(***************************************************************************)
(* AssetHelpers.sortTokens and the sorting of buildJoin                    *)
(*                                                                         *)
(* An address is [key, upper]: key orders the lower-cased addresses, 0 is  *)
(* the zero address (ETH), upper tells the letter case it is written in.   *)
(* An amount, balance or weight is written as the key of the token it      *)
(* belongs to.                                                             *)
(***************************************************************************)
ETH == [key |-> 0, upper |-> FALSE]

\* tokenA.toLowerCase() > tokenB.toLowerCase() ? 1 : -1
cmpTokens(tokenA, tokenB) == IF tokenA.key > tokenB.key THEN 1 ELSE 0 - 1

\* address.getAddress(wethAddress), and AssetHelpers.isEqual
WETH(wethAddress) == [key |-> wethAddress.key, upper |-> TRUE]

isEqual(addressA, addressB) == addressA.key = addressB.key

translateToERC20(token, wethAddress) ==
    IF isEqual(token, ETH) THEN WETH(wethAddress) ELSE token

OrdersOf(n) ==
    {p \in [1..n -> 1..n] : \A i, j \in 1..n : p[i] = p[j] => i = j}

\* the orders Array.sort may leave the rows in: ascending by cmpTokens; the
\* order of two rows of the same address, for which cmpTokens answers -1
\* both ways, is the engine's
SortOrders(erc20Tokens) ==
    {p \in OrdersOf(Len(erc20Tokens)) :
        \A i, j \in 1..Len(erc20Tokens) :
            i < j => \/ isEqual(erc20Tokens[p[i]], erc20Tokens[p[j]])
                     \/ cmpTokens(erc20Tokens[p[j]], erc20Tokens[p[i]]) = 1}

\* sortTokens(tokens, ...others) for the order p of the sort
SortedBy(tokens, others, wethAddress, p) ==
    [tokens |-> [i \in 1..Len(tokens) |->
                    IF (\E k \in 1..Len(tokens) : tokens[k] = ETH)
                         /\ isEqual(translateToERC20(tokens[p[i]], wethAddress),
                                    WETH(wethAddress))
                    THEN ETH
                    ELSE translateToERC20(tokens[p[i]], wethAddress)],
     others |-> [k \in 1..Len(others) |->
                    [i \in 1..Len(tokens) |-> others[k][p[i]]]]]

sortTokens(tokens, others, wethAddress) ==
    {SortedBy(tokens, others, wethAddress, p) :
        p \in SortOrders([i \in 1..Len(tokens) |->
                             translateToERC20(tokens[i], wethAddress)])}

\* the amounts of tokensIn and the balances and weights of the pool's tokens
AmountsOf(tokens, wethAddress) ==
    [i \in 1..Len(tokens) |-> translateToERC20(tokens[i], wethAddress).key]

\* buildJoin of a complete pool: the length test, the two sortTokens calls,
\* and what goes to _calcBptOutGivenExactTokensIn and into joinPoolRequest
BuildJoinSorted(poolTokens, tokensIn, wethAddress) ==
    IF Len(tokensIn) # Len(poolTokens)
    THEN {[err |-> "INPUT_LENGTH_MISMATCH", assets |-> <<>>, amounts |-> <<>>,
           balances |-> <<>>, weights |-> <<>>]}
    ELSE {[err |-> "none", assets |-> a.tokens, amounts |-> a.others[1],
           balances |-> b.others[1], weights |-> b.others[2]] :
            a \in sortTokens(tokensIn, <<AmountsOf(tokensIn, wethAddress)>>,
                             wethAddress),
            b \in sortTokens(poolTokens,
                             <<AmountsOf(poolTokens, wethAddress),
                               AmountsOf(poolTokens, wethAddress)>>,
                             wethAddress)}

(***************************************************************************)
(* State                                                                   *)
(***************************************************************************)
VARIABLES
    \* a caller of _calculateInvariant and the locals of the call; the caller's
    \* bookkeeping: number of the call, the value the first call returned and the
    \* index of the balance raised for the second call
    amp, balances, roundUp, pc, iter, sum, prevInvariant, invariant, divs,
    err, calls, firstD, raised

stableVars == <<amp, balances, roundUp, pc, iter, sum, prevInvariant,
                invariant, divs, err, calls, firstD, raised>>

VARIABLES
    \* a caller of the SolidityMaths functions: the two arguments and, per
    \* function, the outcome of its call
    fa, fb, fres

fixedVars == <<fa, fb, fres>>

VARIABLES
    \* a caller of LogExpMath.pow and SolidityMaths.powUpFixed: the two
    \* arguments and the outcome of each call
    px, py, praw, pres

powVars == <<px, py, praw, pres>>

VARIABLES
    \* a caller of LogExpMath.exp: the argument x, the outcome of exp(x) and
    \* the outcome of exp(-x)
    ex, eres, einv

expVars == <<ex, eres, einv>>

VARIABLES
    \* a caller of calcPriceImpact: the BPT amount, the BPT amount at zero price
    \* impact and the outcome of the call
    ia, iz, ires

impactVars == <<ia, iz, ires>>

VARIABLES
    \* a caller of a pool's price impact calculator: the pool, the token amounts
    \* and the BPT amount it passes, the outcome of bptZeroPriceImpact and the
    \* outcome of calcPriceImpact
    pool, tokenAmounts, bptAmount, bptZero, priceImpact

priceVars == <<pool, tokenAmounts, bptAmount, bptZero, priceImpact>>

VARIABLES
    \* a caller of a stable pool's join builder: the pool, the tokens and amounts
    \* it passes and the outcome of buildJoin
    joinPool, tokensIn, amountsIn, joined

joinVars == <<joinPool, tokensIn, amountsIn, joined>>

VARIABLES
    \* a caller of Liquidity.getLiquidity and of a pool type's calcTotal: the pool,
    \* the pools repository and the price repository behind the service, and the
    \* outcome of each call
    liquidityPool, pools, tokenPrices, liquidity, total

liquidityVars == <<liquidityPool, pools, tokenPrices, liquidity, total>>

VARIABLES
    \* a caller of _computeScalingFactor: the decimals and the outcome of the call
    tokenDecimals, scalingFactor

scalingVars == <<tokenDecimals, scalingFactor>>

VARIABLES
    \* a caller of parseFixed and of parsePoolInfo: a decimal string, the decimals,
    \* the outcome of parseFixed and the outcome of parsePoolInfo for a pool whose
    \* first token has that balance and those decimals
    parseValue, parseDecimals, parsed, parsedInfo

parseVars == <<parseValue, parseDecimals, parsed, parsedInfo>>

VARIABLES
    \* a caller of Pools: the pools the data source holds, as their pool types, the
    \* filter of where, and per method the outcome of its call
    repoList, whereFilter, wrapped

wrapVars == <<repoList, whereFilter, wrapped>>

VARIABLES
    \* a PoolsFallbackRepository and its callers: the providers, the index of the
    \* current provider and, per caller, where its query stands; the providers
    \* asked so far and those whose request failed or timed out
    providers, currentProviderIdx, queries, asked, failedProviders

fallbackVars == <<providers, currentProviderIdx, queries, asked,
                  failedProviders>>

VARIABLES
    \* a SingleSwapBuilder or BatchSwapBuilder and its caller: the kind of swap,
    \* the amounts of the SOR result, the fields funds, deadline and limit or
    \* limits, the outcome of attributes() or buildSwap; the setters called so far
    \* and the deadline given last
    builder, swapKind, swapInfo, funds, deadline, limits, attrs,
    calledSetters, deadlineArg

swapVars == <<builder, swapKind, swapInfo, funds, deadline, limits, attrs,
              calledSetters, deadlineArg>>

VARIABLES
    \* a call of toNormalizedWeights: the weights given, the weights returned,
    \* whether the call has returned, and isNormalizedWeights of the result
    weightsIn, weightsOut, weightsPc, weightsOk

weightsVars == <<weightsIn, weightsOut, weightsPc, weightsOk>>

VARIABLES
    \* the calls of Liquidity.getLiquidity that one call gives rise to: the tokens
    \* each pool of the repository holds, and the calls entered so far, each with
    \* its pool, the call that awaits it and how far it is
    repoTokens, nested

nestingVars == <<repoTokens, nested>>

VARIABLES
    \* a buildJoin call seen through its two sortTokens calls: the addresses of
    \* the pool's tokens, the addresses given as tokensIn, and what the call hands
    \* to the BPT-out math and returns as assets
    alignPool, alignTokensIn, alignResult

alignVars == <<alignPool, alignTokensIn, alignResult>>

vars == <<stableVars, fixedVars, powVars, expVars, impactVars, priceVars,
          joinVars, liquidityVars, scalingVars, parseVars, wrapVars,
          fallbackVars, swapVars, weightsVars, nestingVars, alignVars>>

\* for each caller, the variables of all the other callers
stableFrame == <<fixedVars, powVars, expVars, impactVars, priceVars, joinVars,
                 liquidityVars, scalingVars, parseVars, wrapVars,
                 fallbackVars, swapVars, weightsVars, nestingVars, alignVars>>

fixedFrame == <<stableVars, powVars, expVars, impactVars, priceVars, joinVars,
                liquidityVars, scalingVars, parseVars, wrapVars, fallbackVars,
                swapVars, weightsVars, nestingVars, alignVars>>

powFrame == <<stableVars, fixedVars, expVars, impactVars, priceVars, joinVars,
              liquidityVars, scalingVars, parseVars, wrapVars, fallbackVars,
              swapVars, weightsVars, nestingVars, alignVars>>

expFrame == <<stableVars, fixedVars, powVars, impactVars, priceVars, joinVars,
              liquidityVars, scalingVars, parseVars, wrapVars, fallbackVars,
              swapVars, weightsVars, nestingVars, alignVars>>

impactFrame == <<stableVars, fixedVars, powVars, expVars, priceVars, joinVars,
                 liquidityVars, scalingVars, parseVars, wrapVars,
                 fallbackVars, swapVars, weightsVars, nestingVars, alignVars>>

priceFrame == <<stableVars, fixedVars, powVars, expVars, impactVars, joinVars,
                liquidityVars, scalingVars, parseVars, wrapVars, fallbackVars,
                swapVars, weightsVars, nestingVars, alignVars>>

joinFrame == <<stableVars, fixedVars, powVars, expVars, impactVars, priceVars,
               liquidityVars, scalingVars, parseVars, wrapVars, fallbackVars,
               swapVars, weightsVars, nestingVars, alignVars>>

liquidityFrame == <<stableVars, fixedVars, powVars, expVars, impactVars,
                    priceVars, joinVars, scalingVars, parseVars, wrapVars,
                    fallbackVars, swapVars, weightsVars, nestingVars,
                    alignVars>>

scalingFrame == <<stableVars, fixedVars, powVars, expVars, impactVars,
                  priceVars, joinVars, liquidityVars, parseVars, wrapVars,
                  fallbackVars, swapVars, weightsVars, nestingVars,
                  alignVars>>

parseFrame == <<stableVars, fixedVars, powVars, expVars, impactVars,
                priceVars, joinVars, liquidityVars, scalingVars, wrapVars,
                fallbackVars, swapVars, weightsVars, nestingVars, alignVars>>

wrapFrame == <<stableVars, fixedVars, powVars, expVars, impactVars, priceVars,
               joinVars, liquidityVars, scalingVars, parseVars, fallbackVars,
               swapVars, weightsVars, nestingVars, alignVars>>

fallbackFrame == <<stableVars, fixedVars, powVars, expVars, impactVars,
                   priceVars, joinVars, liquidityVars, scalingVars, parseVars,
                   wrapVars, swapVars, weightsVars, nestingVars, alignVars>>

swapFrame == <<stableVars, fixedVars, powVars, expVars, impactVars, priceVars,
               joinVars, liquidityVars, scalingVars, parseVars, wrapVars,
               fallbackVars, weightsVars, nestingVars, alignVars>>

weightsFrame == <<stableVars, fixedVars, powVars, expVars, impactVars,
                  priceVars, joinVars, liquidityVars, scalingVars, parseVars,
                  wrapVars, fallbackVars, swapVars, nestingVars, alignVars>>

nestingFrame == <<stableVars, fixedVars, powVars, expVars, impactVars,
                  priceVars, joinVars, liquidityVars, scalingVars, parseVars,
                  wrapVars, fallbackVars, swapVars, weightsVars, alignVars>>

alignFrame == <<stableVars, fixedVars, powVars, expVars, impactVars,
                priceVars, joinVars, liquidityVars, scalingVars, parseVars,
                wrapVars, fallbackVars, swapVars, weightsVars, nestingVars>>

\* the outcome of a call not made yet
Pending == [err |-> "pending", val |-> BigInt(0)]

\* a caller that takes no part in the run
StableIdle ==
    /\ amp = BigInt(0)
    /\ balances = <<>>
    /\ roundUp = FALSE
    /\ pc = "idle"
    /\ iter = 0
    /\ sum = BigInt(0)
    /\ prevInvariant = BigInt(0)
    /\ invariant = BigInt(0)
    /\ divs = <<>>
    /\ err = "none"
    /\ calls = 0
    /\ firstD = BigInt(0)
    /\ raised = 0

FixedOps ==
    {"divDown", "divUp", "divDownFixed", "divUpFixed", "mulDownFixed", "mulUpFixed"}

FixedIdle ==
    /\ fa = BigInt(0)
    /\ fb = BigInt(0)
    /\ fres = [op \in FixedOps |-> Pending]

PowIdle ==
    /\ px = BigInt(0)
    /\ py = BigInt(0)
    /\ praw = Pending
    /\ pres = Pending

ExpIdle ==
    /\ ex = BigInt(0)
    /\ eres = Pending
    /\ einv = Pending

ImpactIdle ==
    /\ ia = BigInt(0)
    /\ iz = BigInt(0)
    /\ ires = Pending

NoPool ==
    [poolType |-> "", address |-> "", tokensList |-> <<>>, tokens |-> <<>>,
     amp |-> None, totalShares |-> DecStr(0, 0)]

PriceIdle ==
    /\ pool = NoPool
    /\ tokenAmounts = <<>>
    /\ bptAmount = BigInt(0)
    /\ bptZero = Pending
    /\ priceImpact = Pending

\* buildJoin not called yet
NotBuilt == [err |-> "pending", parsed |-> FALSE, attributes |-> FALSE]

JoinIdle ==
    /\ joinPool = NoPool
    /\ tokensIn = <<>>
    /\ amountsIn = <<>>
    /\ joined = NotBuilt

LiquidityIdle ==
    /\ liquidityPool = NoPool
    /\ pools = <<>>
    /\ tokenPrices = <<>>
    /\ liquidity = Pending
    /\ total = Pending

ScalingIdle ==
    /\ tokenDecimals = 0
    /\ scalingFactor = Pending

ParseIdle ==
    /\ parseValue = DecStr(0, 0)
    /\ parseDecimals = 0
    /\ parsed = Pending
    /\ parsedInfo = Pending

WrapOps == {"wrap", "find", "all", "where"}

NotWrapped == [err |-> "pending", handlers |-> <<>>]

WrapIdle ==
    /\ repoList = <<>>
    /\ whereFilter = ""
    /\ wrapped = [op \in WrapOps |-> NotWrapped]

NoQuery == [pc |-> "idle", provider |-> 0, err |-> "none", sent |-> <<>>]

FallbackIdle ==
    /\ providers = <<>>
    /\ currentProviderIdx = 0
    /\ queries = <<>>
    /\ asked = {}
    /\ failedProviders = {}

Undefined == [kind |-> "undefined", n |-> 0]

NoLimits == [set |-> FALSE, vals |-> <<>>, maxSlippage |-> 0]

SwapIdle ==
    /\ builder = ""
    /\ swapKind = ""
    /\ swapInfo = [swapAmount |-> BigInt(0), returnAmount |-> BigInt(0)]
    /\ funds = FALSE
    /\ deadline = Undefined
    /\ limits = NoLimits
    /\ attrs = "none"
    /\ calledSetters = {}
    /\ deadlineArg = Undefined

WeightsIdle ==
    /\ weightsIn = <<>>
    /\ weightsOut = <<>>
    /\ weightsPc = "idle"
    /\ weightsOk = FALSE

NestingIdle ==
    /\ repoTokens = <<>>
    /\ nested = <<>>

NotJoined == [err |-> "pending", assets |-> <<>>, amounts |-> <<>>, balances |-> <<>>, weights |-> <<>>]

AlignIdle ==
    /\ alignPool = <<>>
    /\ alignTokensIn = <<>>
    /\ alignResult = NotJoined

\* every caller is idle except those named in gs
IdleExcept(gs) ==
    /\ "stable" \notin gs => StableIdle
    /\ "fixed" \notin gs => FixedIdle
    /\ "pow" \notin gs => PowIdle
    /\ "exp" \notin gs => ExpIdle
    /\ "impact" \notin gs => ImpactIdle
    /\ "price" \notin gs => PriceIdle
    /\ "join" \notin gs => JoinIdle
    /\ "liquidity" \notin gs => LiquidityIdle
    /\ "scaling" \notin gs => ScalingIdle
    /\ "parse" \notin gs => ParseIdle
    /\ "wrap" \notin gs => WrapIdle
    /\ "fallback" \notin gs => FallbackIdle
    /\ "swap" \notin gs => SwapIdle
    /\ "weights" \notin gs => WeightsIdle
    /\ "nesting" \notin gs => NestingIdle
    /\ "align" \notin gs => AlignIdle

(***************************************************************************)
(* Inputs                                                                  *)
(***************************************************************************)
MaxTokens == 3

MaxBalance == 3

\* amp is the amplification parameter times AMP_PRECISION, at least 1.0
AmpValues == {BigInt(1000), BigInt(1001), BigInt(2777), BigInt(100000)}

SmallBalances ==
    UNION {[1..n -> {BigInt(k) : k \in 0..MaxBalance}] : n \in 1..MaxTokens}

e18(k) == BigMul(BigInt(k), ONE)

ScaledBalances ==
    {<<e18(1000000), e18(1000000), e18(1000000)>>,
     <<e18(1000), e18(1000)>>,
     <<e18(2), e18(3)>>,
     <<BigAdd(e18(7), BONE), e18(7), BigSub(e18(7), BONE)>>,
     <<e18(100), e18(120), e18(90)>>}

(***************************************************************************)
(* _calculateInvariant as a state machine                                  *)
(***************************************************************************)
StableInit ==
    /\ amp \in AmpValues
    /\ balances \in SmallBalances \cup ScaledBalances
    /\ roundUp \in BOOLEAN
    /\ pc = "call"
    /\ iter = 0
    /\ sum = BZERO
    /\ prevInvariant = BZERO
    /\ invariant = BZERO
    /\ divs = <<>>
    /\ err = "none"
    /\ calls = 1
    /\ firstD = BZERO
    /\ raised = 0
    /\ IdleExcept({"stable"})

\* the prologue: sum the balances, return 0 for an empty pool
Enter ==
    /\ pc = "call"
    /\ LET s == SumBalances(balances, 1)
       IN  /\ sum' = s
           /\ invariant' = (IF s = BZERO THEN BZERO ELSE s)
           /\ pc' = (IF s = BZERO THEN "returned" ELSE "loop")
    /\ prevInvariant' = BZERO
    /\ iter' = 0
    /\ divs' = <<>>
    /\ UNCHANGED <<amp, balances, roundUp, err, calls, firstD, raised>>
    /\ UNCHANGED stableFrame

\* one iteration of the outer loop
Iterate ==
    /\ pc = "loop"
    /\ iter < MaxIterations
    /\ \E b \in {LoopBody(amp, balances, roundUp, sum, invariant)} :
          IF b.err # "none"
          THEN /\ pc' = "threw"
               /\ err' = b.err
               /\ UNCHANGED <<prevInvariant, invariant, divs>>
          ELSE /\ prevInvariant' = invariant
               /\ invariant' = b.val
               /\ divs' = b.divs
               /\ pc' = (IF Converged(invariant, b.val) THEN "returned" ELSE "loop")
               /\ err' = err
    /\ iter' = iter + 1
    /\ UNCHANGED <<amp, balances, roundUp, sum, calls, firstD, raised>>
    /\ UNCHANGED stableFrame

\* the loop ran out of iterations
DidntConverge ==
    /\ pc = "loop"
    /\ iter = MaxIterations
    /\ pc' = "threw"
    /\ err' = "Errors.STABLE_INVARIANT_DIDNT_CONVERGE"
    /\ UNCHANGED <<amp, balances, roundUp, iter, sum, prevInvariant, invariant,
                   divs, calls, firstD, raised>>
    /\ UNCHANGED stableFrame

\* the caller computes D a second time, with the same balances (k = 0) or
\* with balance k raised by one unit
CallAgain ==
    /\ pc = "returned"
    /\ calls = 1
    /\ \E k \in 0..Len(balances) :
          /\ raised' = k
          /\ balances' = [i \in 1..Len(balances) |->
                            IF i = k THEN BigAdd(balances[i], BONE) ELSE balances[i]]
    /\ calls' = 2
    /\ firstD' = invariant
    /\ pc' = "call"
    /\ UNCHANGED <<amp, roundUp, iter, sum, prevInvariant, invariant, divs, err>>
    /\ UNCHANGED stableFrame

StableNext == Enter \/ Iterate \/ DidntConverge \/ CallAgain

Spec == StableInit /\ [][StableNext]_vars

(***************************************************************************)
(* The SolidityMaths functions called on a pair of arguments               *)
(***************************************************************************)
MaxFixed == 3

FixedValues ==
    {BigInt(k) : k \in -2..MaxFixed}
      \cup {BigSub(ONE, BONE), ONE, BigAdd(ONE, BONE), e18(2),
            BigDiv(ONE, BigInt(3)), BigDiv(e18(3), BigInt(2)),
            BigNeg(BigDiv(e18(3), BigInt(2))),
            BigAdd(BigDiv(e18(7), BigInt(10)), BONE)}

FixedInit ==
    /\ fa \in FixedValues
    /\ fb \in FixedValues
    /\ fres = [op \in FixedOps |-> Pending]
    /\ IdleExcept({"fixed"})

\* one action per function: its call on (fa, fb) and the outcome
CallDivDown ==
    /\ fres["divDown"] = Pending
    /\ fres' = [fres EXCEPT !["divDown"] = divDown(fa, fb)]
    /\ UNCHANGED <<fa, fb, fixedFrame>>

CallDivUp ==
    /\ fres["divUp"] = Pending
    /\ fres' = [fres EXCEPT !["divUp"] = divUp(fa, fb)]
    /\ UNCHANGED <<fa, fb, fixedFrame>>

CallDivDownFixed ==
    /\ fres["divDownFixed"] = Pending
    /\ fres' = [fres EXCEPT !["divDownFixed"] = divDownFixed(fa, fb)]
    /\ UNCHANGED <<fa, fb, fixedFrame>>

CallDivUpFixed ==
    /\ fres["divUpFixed"] = Pending
    /\ fres' = [fres EXCEPT !["divUpFixed"] = divUpFixed(fa, fb)]
    /\ UNCHANGED <<fa, fb, fixedFrame>>

CallMulDownFixed ==
    /\ fres["mulDownFixed"] = Pending
    /\ fres' = [fres EXCEPT !["mulDownFixed"] = mulDownFixed(fa, fb)]
    /\ UNCHANGED <<fa, fb, fixedFrame>>

CallMulUpFixed ==
    /\ fres["mulUpFixed"] = Pending
    /\ fres' = [fres EXCEPT !["mulUpFixed"] = mulUpFixed(fa, fb)]
    /\ UNCHANGED <<fa, fb, fixedFrame>>

FixedNext ==
    \/ CallDivDown \/ CallDivUp \/ CallDivDownFixed \/ CallDivUpFixed
    \/ CallMulDownFixed \/ CallMulUpFixed

SpecFixed == FixedInit /\ [][FixedNext]_vars

(***************************************************************************)
(* LogExpMath.pow and SolidityMaths.powUpFixed called on a pair (x, y)     *)
(***************************************************************************)
MaxPowBase == 4

MaxPowExp == 4

\* bases in steps of one half and exponents in steps of one quarter, and
\* the values next to the branches of pow
PowBases ==
    {BigDiv(e18(k), BigInt(2)) : k \in 0..MaxPowBase}
      \cup {BONE, BigSub(ONE, BONE), BigAdd(ONE, BONE), LN_36_LOWER_BOUND,
            LN_36_UPPER_BOUND, BigSub(X_BOUND, BONE), X_BOUND}

PowExponents ==
    {BigDiv(e18(k), BigInt(4)) : k \in 0..MaxPowExp}
      \cup {BONE, BigAdd(e18(3), BigInt(7)), BigSub(MILD_EXPONENT_BOUND, BONE),
            MILD_EXPONENT_BOUND}

PowInit ==
    /\ px \in PowBases
    /\ py \in PowExponents
    /\ praw = Pending
    /\ pres = Pending
    /\ IdleExcept({"pow"})

CallPow ==
    /\ praw = Pending
    /\ praw' = pow(px, py)
    /\ UNCHANGED <<px, py, pres, powFrame>>

CallPowUpFixed ==
    /\ pres = Pending
    /\ pres' = powUpFixed(px, py)
    /\ UNCHANGED <<px, py, praw, powFrame>>

PowNext == CallPow \/ CallPowUpFixed

SpecPow == PowInit /\ [][PowNext]_vars

(***************************************************************************)
(* LogExpMath.exp called on x and on -x, next to pow called on (x, y)      *)
(***************************************************************************)
MaxExp == 12

\* arguments in steps of one half, and the values next to the two bounds
\* and to the thresholds x0, x1
ExpValues ==
    {BigDiv(e18(k), BigInt(2)) : k \in -MaxExp..MaxExp}
      \cup {BigSub(MIN_NATURAL_EXPONENT, BONE), MIN_NATURAL_EXPONENT,
            BigAdd(MIN_NATURAL_EXPONENT, BONE),
            BigSub(MAX_NATURAL_EXPONENT, BONE), MAX_NATURAL_EXPONENT,
            BigAdd(MAX_NATURAL_EXPONENT, BONE),
            BigNeg(BONE), BONE, x1, BigSub(x0, BONE), x0, BigNeg(e18(50)),
            e18(200)}

\* either exp is called, on an argument of ExpValues, or pow is
ExpInit ==
    /\ IdleExcept({"exp", "pow"})
    /\ \/ /\ ex \in ExpValues
          /\ eres = Pending
          /\ einv = Pending
          /\ PowIdle
       \/ /\ ExpIdle
          /\ px \in PowBases
          /\ py \in PowExponents
          /\ praw = Pending
          /\ pres = Pending

CallExp ==
    /\ eres = Pending
    /\ eres' = exp(ex)
    /\ UNCHANGED <<ex, einv, expFrame>>

CallExpOfNegation ==
    /\ einv = Pending
    /\ einv' = exp(BigNeg(ex))
    /\ UNCHANGED <<ex, eres, expFrame>>

ExpNext == CallExp \/ CallExpOfNegation \/ CallPow

SpecExp == ExpInit /\ [][ExpNext]_vars

(***************************************************************************)
(* calcPriceImpact called on a pair of BPT amounts                         *)
(***************************************************************************)
MaxImpact == 4

\* BPT amounts: multiples of half a unit, and amounts one wei off a unit
ImpactValues ==
    {BigDiv(e18(k), BigInt(2)) : k \in 0..MaxImpact}
      \cup {BONE, BigSub(ONE, BONE), BigAdd(ONE, BONE), BigAdd(e18(2), BONE),
            BigSub(e18(2), BONE), BigInt(3)}

ImpactInit ==
    /\ ia \in ImpactValues
    /\ iz \in ImpactValues
    /\ ires = Pending
    /\ IdleExcept({"impact"})

CallCalcPriceImpact ==
    /\ ires = Pending
    /\ ires' = calcPriceImpact(ia, iz)
    /\ UNCHANGED <<ia, iz, impactFrame>>

ImpactNext == CallCalcPriceImpact

SpecImpact == ImpactInit /\ [][ImpactNext]_vars

(***************************************************************************)
(* A pool's price impact calculator called on a pool snapshot              *)
(***************************************************************************)
MaxPoolTokens == 3

PoolTypes ==
    {"Weighted", "Stable", "MetaStable", "StablePhantom", "AaveLinear",
     "ERC4626Linear", "Element"}

\* the fields a snapshot may lack: decimals, priceRate and weight of one token,
\* and the pool's amp
MissingFields ==
    {{}, {"decimals"}, {"amp"}, {"priceRate"}, {"weight"}, {"decimals", "amp"},
     {"decimals", "priceRate"}, {"amp", "priceRate"}, {"decimals", "weight"}}

TokenAddress(i) == <<"token1", "token2", "token3", "token4">>[i]

TokenDecimals(i) == <<18, 6, 8, 18>>[i]

\* balances as decimal strings; the first has a fractional part
TokenBalance(i) ==
    <<DecStr(100, 500), DecStr(200, 0), DecStr(300, 0), DecStr(400, 0)>>[i]

TokenPriceRate(i) ==
    <<DecStr(1, 0), DecStr(1, 100), DecStr(1, 250), DecStr(1, 500)>>[i]

\* normalized weights of a pool of n tokens: 1/2, 1/4, ... and the rest
TokenWeight(i, n) ==
    IF i < n THEN DecStr(0, 1000 \div (2 ^ i))
    ELSE DecStr(0, 1000 \div (2 ^ (n - 1)))

\* token i of a pool of n tokens, lacking the fields of lacks; the pool's own
\* BPT has the preminted balance and the price rate 1
PoolToken(i, n, lacks, isBpt) ==
    [address |-> TokenAddress(i),
     decimals |-> IF "decimals" \in lacks THEN 0
                  ELSE IF isBpt THEN 18 ELSE TokenDecimals(i),
     balance |-> IF isBpt THEN DecStr(1000000, 0) ELSE TokenBalance(i),
     priceRate |-> IF "priceRate" \in lacks THEN None
                   ELSE IF isBpt THEN Some(DecStr(1, 0))
                   ELSE Some(TokenPriceRate(i)),
     weight |-> IF "weight" \in lacks THEN None ELSE Some(TokenWeight(i, n))]

\* a pool of n tokens whose token at lacks the fields of missing; a
\* StablePhantom pool holds its own BPT at position bpt
PoolSnapshot(poolType, n, bpt, missing, at) ==
    [poolType |-> poolType,
     address |-> IF poolType = "StablePhantom" THEN TokenAddress(bpt)
                 ELSE "pool",
     tokensList |-> [i \in 1..n |-> TokenAddress(i)],
     tokens |-> [i \in 1..n |->
                    PoolToken(i, n, IF i = at THEN missing ELSE {},
                              poolType = "StablePhantom" /\ i = bpt)],
     amp |-> IF "amp" \in missing THEN None ELSE Some(DecStr(10, 0)),
     totalShares |-> DecStr(500, 0)]

\* the pool types that have a price impact calculator of their own
PricedTypes == {"Weighted", "Stable", "MetaStable", "StablePhantom"}

\* snapshots of every pool type: the field or fields missing sit on the first
\* or on the second token; a StablePhantom pool lists its own BPT next to two
\* tokens or more; pools of the other types come complete or without amp
PoolSnapshots ==
    {p \in {PoolSnapshot(poolType, n, bpt, missing, at) :
                poolType \in PoolTypes, n \in 2..MaxPoolTokens,
                bpt \in 1..MaxPoolTokens, missing \in MissingFields,
                at \in 1..2} :
        /\ p.poolType = "StablePhantom" => BptIndex(p) # 0 /\ Len(p.tokens) > 2
        /\ p.poolType # "StablePhantom" => p.address = "pool"
        /\ p.poolType \in PricedTypes
             \/ \A i \in 1..Len(p.tokens) :
                    /\ p.tokens[i].decimals # 0
                    /\ p.tokens[i].priceRate.has
                    /\ p.tokens[i].weight.has}

\* token amounts: any number of them, all zero or all 10 ** 6
AmountLists ==
    {[i \in 1..len |-> amount] :
        len \in 0..(MaxPoolTokens + 1), amount \in {BZERO, BigInt(1000000)}}

\* the number of token amounts bptZeroPriceImpact expects for the pool
ExpectedAmounts(p) ==
    IF p.poolType = "StablePhantom" THEN Len(p.tokensList) - 1
    ELSE Len(p.tokensList)

PriceInit ==
    /\ pool \in PoolSnapshots
    /\ tokenAmounts \in AmountLists
    /\ Len(tokenAmounts) \in (Len(pool.tokensList) - 1)..(Len(pool.tokensList) + 1)
    /\ bptAmount = ONE
    /\ bptZero = Pending
    /\ priceImpact = Pending
    /\ IdleExcept({"price"})

CallBptZeroPriceImpact ==
    /\ bptZero = Pending
    /\ bptZero' = PriceImpact_bptZeroPriceImpact(pool, tokenAmounts)
    /\ UNCHANGED <<pool, tokenAmounts, bptAmount, priceImpact, priceFrame>>

\* the caller asks for the price impact after the BPT amount at zero impact
CallPoolCalcPriceImpact ==
    /\ bptZero # Pending
    /\ priceImpact = Pending
    /\ priceImpact' = PriceImpact_calcPriceImpact(pool, tokenAmounts, bptAmount)
    /\ UNCHANGED <<pool, tokenAmounts, bptAmount, bptZero, priceFrame>>

PriceNext == CallBptZeroPriceImpact \/ CallPoolCalcPriceImpact

SpecPrice == PriceInit /\ [][PriceNext]_vars

(***************************************************************************)
(* buildJoin called on a pool snapshot                                     *)
(***************************************************************************)
JoinInit ==
    /\ joinPool \in {p \in PoolSnapshots : p.poolType \in {"Stable", "MetaStable"}}
    /\ tokensIn \in {[i \in 1..len |-> TokenAddress(i)] :
                        len \in 1..(MaxPoolTokens + 1)}
    /\ Len(tokensIn) \in (Len(joinPool.tokensList) - 1)..(Len(joinPool.tokensList) + 1)
    /\ amountsIn \in {a \in AmountLists : a = <<>> \/ a[1] # BZERO}
    /\ Len(amountsIn) \in (Len(joinPool.tokensList) - 1)..(Len(joinPool.tokensList) + 1)
    /\ joined = NotBuilt
    /\ IdleExcept({"join"})

CallBuildJoin ==
    /\ joined = NotBuilt
    /\ joined' \in Join_buildJoin(joinPool, tokensIn, amountsIn)
    /\ UNCHANGED <<joinPool, tokensIn, amountsIn, joinFrame>>

JoinNext == CallBuildJoin

SpecJoin == JoinInit /\ [][JoinNext]_vars

(***************************************************************************)
(* Liquidity.getLiquidity called on a pool, sub-pools among its tokens     *)
(***************************************************************************)
LiquidityTypes == {"Weighted", "Stable", "MetaStable", "StablePhantom", "AaveLinear"}

\* what sits at a position of the pool: an ordinary token, the BPT of a
\* Weighted sub-pool, or the BPT of a StablePhantom sub-pool
TokenKinds == {"token", "pool", "phantom"}

SubPoolAddress(i) == <<"subpool1", "subpool2", "subpool3", "subpool4">>[i]

TokenUsd(i) == <<DecStr(1, 500), DecStr(2, 0), DecStr(0, 500), DecStr(3, 0)>>[i]

Addresses ==
    {TokenAddress(i) : i \in 1..(MaxPoolTokens + 1)}
      \cup {SubPoolAddress(i) : i \in 1..(MaxPoolTokens + 1)}
      \cup {"pool", "dai", "usdc"}

PlainToken(address, balance, weight) ==
    [address |-> address, decimals |-> 18, balance |-> balance,
     priceRate |-> Some(DecStr(1, 0)), weight |-> Some(weight)]

\* the sub-pool whose BPT sits at position i: two ordinary tokens
SubPool(i, kind) ==
    [poolType |-> IF kind = "pool" THEN "Weighted" ELSE "StablePhantom",
     address |-> SubPoolAddress(i),
     tokensList |-> <<"dai", "usdc">>,
     tokens |-> <<PlainToken("dai", DecStr(50 * i, 0), DecStr(0, 500)),
                  PlainToken("usdc", DecStr(70, 0), DecStr(0, 500))>>,
     amp |-> None,
     totalShares |-> DecStr(1000, 0)]

\* a pool of the given type with shape[i] at position i; a StablePhantom pool
\* also holds its own BPT
ParentTokens(shape) ==
    [i \in 1..Len(shape) |->
        PlainToken(IF shape[i] = "token" THEN TokenAddress(i)
                   ELSE SubPoolAddress(i),
                   TokenBalance(i), TokenWeight(i, Len(shape)))]

ParentPool(poolType, shape) ==
    [poolType |-> poolType,
     address |-> "pool",
     tokensList |-> <<>>,
     tokens |-> IF poolType = "StablePhantom"
                THEN <<PlainToken("pool", DecStr(1000000, 0), DecStr(0, 0))>>
                        \o ParentTokens(shape)
                ELSE ParentTokens(shape),
     amp |-> None,
     totalShares |-> DecStr(500, 0)]

\* the pools repository: the sub-pools of the shape, and a look-up that fails
\* for the address failing
PoolsRepository(shape, failing) ==
    [a \in Addresses |->
        IF a = failing THEN [status |-> "failed", pool |-> NoPool]
        ELSE IF \E i \in 1..Len(shape) : shape[i] # "token" /\ a = SubPoolAddress(i)
        THEN [status |-> "found",
              pool |-> SubPool(CHOOSE i \in 1..Len(shape) : a = SubPoolAddress(i),
                               shape[CHOOSE i \in 1..Len(shape) :
                                        a = SubPoolAddress(i)])]
        ELSE [status |-> "none", pool |-> NoPool]]

\* the price repository: a price for every token, except that the request for
\* the address failing fails and the one for the address empty returns no data
PriceRepository(failing, empty) ==
    [a \in Addresses |->
        [status |-> IF a = failing THEN "failed"
                    ELSE IF a = empty THEN "empty" ELSE "ok",
         usd |-> IF \E i \in 1..(MaxPoolTokens + 1) : a = TokenAddress(i)
                 THEN TokenUsd(CHOOSE i \in 1..(MaxPoolTokens + 1) :
                                  a = TokenAddress(i))
                 ELSE DecStr(1, 0)]]

\* at most one look-up goes wrong: none, the pool look-up or the price
\* request for the address at a position, or a price request without data
Faults == {"none", "pool look-up", "price request", "no price"}

Shapes == UNION {[1..n -> TokenKinds] : n \in 2..MaxPoolTokens}

FaultAddress(shape, fault, at, wanted) ==
    IF fault = wanted THEN ParentTokens(shape)[at].address ELSE ""

LiquidityInput(poolType, shape, fault, at) ==
    [pool |-> ParentPool(poolType, shape),
     pools |-> PoolsRepository(shape,
                               FaultAddress(shape, fault, at, "pool look-up")),
     prices |-> PriceRepository(FaultAddress(shape, fault, at, "price request"),
                                FaultAddress(shape, fault, at, "no price"))]

LiquidityInputs ==
    {LiquidityInput(x[1], x[2], x[3], x[4]) :
        x \in {y \in LiquidityTypes \X Shapes \X Faults \X (1..MaxPoolTokens) :
                  /\ y[4] <= Len(y[2])
                  /\ y[3] = "none" => y[4] = 1}}

LiquidityInit ==
    /\ \E x \in LiquidityInputs :
          /\ liquidityPool = x.pool
          /\ pools = x.pools
          /\ tokenPrices = x.prices
    /\ liquidity = Pending
    /\ total = Pending
    /\ IdleExcept({"liquidity"})

\* the outcome of a call that resolves with value r.val or rejects with one
\* of the errors r.errs
Settles(r) ==
    IF r.errs = {} THEN {Ok(r.val)} ELSE {Fail(e) : e \in r.errs}

CallGetLiquidity ==
    /\ liquidity = Pending
    /\ liquidity' \in Settles(getLiquidity(pools, tokenPrices, liquidityPool))
    /\ UNCHANGED <<liquidityPool, pools, tokenPrices, total, liquidityFrame>>

LiquidityNext == CallGetLiquidity

SpecLiquidity == LiquidityInit /\ [][LiquidityNext]_vars

(***************************************************************************)
(* The handlers of a Linear pool: price impact and calcTotal               *)
(***************************************************************************)
LinearTypes == {"AaveLinear", "ERC4626Linear"}

\* the pool's tokens with the prices the price repository gives for them
PricedTokens(feed, tokens) ==
    [i \in 1..Len(tokens) |->
        PricedToken(tokens[i], CoingeckoFind(feed, tokens[i].address))]

LinearInputs ==
    {LiquidityInput(x[1], x[2], x[3], x[4]) :
        x \in {y \in LinearTypes \X Shapes
                        \X {"none", "price request", "no price"}
                        \X (1..MaxPoolTokens) :
                  /\ y[4] <= Len(y[2])
                  /\ y[3] = "none" => y[4] = 1}}

LinearInit ==
    /\ \E x \in LinearInputs :
          /\ liquidityPool = x.pool
          /\ pool = x.pool
          /\ pools = x.pools
          /\ tokenPrices = x.prices
    /\ tokenAmounts \in AmountLists
    /\ Len(tokenAmounts) \in (Len(pool.tokens) - 1)..Len(pool.tokens)
    /\ bptAmount = ONE
    /\ bptZero = Pending
    /\ priceImpact = Pending
    /\ liquidity = Pending
    /\ total = Pending
    /\ IdleExcept({"price", "liquidity"})

\* liquidity.calcTotal of the pool's type on the pool's priced tokens
CallCalcTotal ==
    /\ total = Pending
    /\ total' = Liquidity_calcTotal(liquidityPool.poolType,
                                    PricedTokens(tokenPrices, liquidityPool.tokens))
    /\ UNCHANGED <<liquidityPool, pools, tokenPrices, liquidity, liquidityFrame>>

LinearNext ==
    \/ CallBptZeroPriceImpact
    \/ CallPoolCalcPriceImpact
    \/ CallCalcTotal

SpecLinear == LinearInit /\ [][LinearNext]_vars

(***************************************************************************)
(* Price impact of pools with a token of any number of decimals            *)
(***************************************************************************)
MaxDecimals == 20

\* the complete snapshots of the pool types with a price impact calculator
CompleteSnapshots ==
    {p \in PoolSnapshots :
        /\ p.poolType \in PricedTypes
        /\ p.amp.has
        /\ \A i \in 1..Len(p.tokens) :
              /\ p.tokens[i].decimals # 0
              /\ p.tokens[i].priceRate.has
              /\ p.tokens[i].weight.has}

\* the token at a position of a complete snapshot gets the decimals given to
\* _computeScalingFactor: any token of a Weighted pool, the last token of a
\* stable pool of two tokens
ScalingInit ==
    /\ tokenDecimals \in 0..MaxDecimals
    /\ \E p \in CompleteSnapshots, at \in 1..MaxPoolTokens :
          /\ at <= Len(p.tokens)
          /\ p.poolType # "Weighted"
                => at = Len(p.tokens) /\ ExpectedAmounts(p) = 2
          /\ pool = [p EXCEPT !.tokens[at].decimals = tokenDecimals]
    /\ tokenAmounts = [i \in 1..ExpectedAmounts(pool) |-> BigInt(1000000)]
    /\ bptAmount = ONE
    /\ bptZero = Pending
    /\ priceImpact = Pending
    /\ scalingFactor = Pending
    /\ IdleExcept({"price", "scaling"})

CallComputeScalingFactor ==
    /\ scalingFactor = Pending
    /\ scalingFactor' = _computeScalingFactor(tokenDecimals)
    /\ UNCHANGED <<tokenDecimals, scalingFrame>>

ScalingNext ==
    \/ CallComputeScalingFactor
    \/ CallBptZeroPriceImpact
    \/ CallPoolCalcPriceImpact

SpecScaling == ScalingInit /\ [][ScalingNext]_vars

(***************************************************************************)
(* parseFixed and parsePoolInfo called on a decimal string                 *)
(***************************************************************************)
MaxParseWhole == 2

MaxParseDecimals == 4

\* fractional parts of one, two and three digits
ParseMillis == {0, 500, 120, 990, 125, 5, 999}

\* a Weighted pool of two tokens whose first token has the balance and the
\* decimals given
ParsePool(balance, decimals) ==
    [PoolSnapshot("Weighted", 2, 1, {}, 1)
        EXCEPT !.tokens[1].balance = balance, !.tokens[1].decimals = decimals]

ParseInit ==
    /\ parseValue \in {DecStr(w, m) : w \in 0..MaxParseWhole, m \in ParseMillis}
    /\ parseDecimals \in 0..MaxParseDecimals
    /\ parsed = Pending
    /\ parsedInfo = Pending
    /\ IdleExcept({"parse"})

CallParseFixed ==
    /\ parsed = Pending
    /\ parsed' = parseFixed(parseValue, parseDecimals)
    /\ UNCHANGED <<parseValue, parseDecimals, parsedInfo, parseFrame>>

\* parsePoolInfo(pool): its error, or the first of its parsedBalances
CallParsePoolInfo ==
    /\ parsedInfo = Pending
    /\ \E info \in {parsePoolInfo(ParsePool(parseValue, parseDecimals))} :
          parsedInfo' = IF info.err # "none" THEN Fail(info.err)
                        ELSE Ok(info.parsedBalances[1])
    /\ UNCHANGED <<parseValue, parseDecimals, parsed, parseFrame>>

ParseNext == CallParseFixed \/ CallParsePoolInfo

SpecParse == ParseInit /\ [][ParseNext]_vars

(***************************************************************************)
(* Pools called on the pools of a data source                              *)
(***************************************************************************)
MaxPools == 2

SupportedTypes ==
    {"Weighted", "Investment", "LiquidityBootstrapping", "Stable", "MetaStable",
     "StablePhantom", "AaveLinear", "ERC4626Linear"}

AllPoolTypes == SupportedTypes \cup {"Element", "Gyro2"}

\* the pools of the list that the filter lets through
RECURSIVE Filtered(_, _, _)
Filtered(list, filter, i) ==
    IF i > Len(list) THEN <<>>
    ELSE IF filter = "any" \/ list[i] = filter
    THEN <<list[i]>> \o Filtered(list, filter, i + 1)
    ELSE Filtered(list, filter, i + 1)

WrapInit ==
    /\ repoList \in UNION {[1..n -> AllPoolTypes] : n \in 0..MaxPools}
    /\ whereFilter \in {"any", "Weighted", "Element"}
    /\ wrapped = [op \in WrapOps |-> NotWrapped]
    /\ IdleExcept({"wrap"})

WrapDone(op, r) ==
    /\ wrapped[op] = NotWrapped
    /\ wrapped' = [wrapped EXCEPT ![op] = r]
    /\ UNCHANGED <<repoList, whereFilter, wrapFrame>>

\* Pools.wrap on the first pool of the data source
CallWrap ==
    /\ repoList # <<>>
    /\ WrapDone("wrap", Pools_wrap(repoList[1]))

\* what dataSource().find(id) resolves with: the first pool, or nothing
Found(list) == IF list = <<>> THEN <<>> ELSE <<list[1]>>

CallFind ==
    /\ wrapped["find"] = NotWrapped
    /\ WrapDone("find", Pools_find(Found(repoList)))

CallAll ==
    /\ wrapped["all"] = NotWrapped
    /\ WrapDone("all", Pools_all(repoList))

CallWhere ==
    /\ wrapped["where"] = NotWrapped
    /\ WrapDone("where", Pools_all(Filtered(repoList, whereFilter, 1)))

WrapNext == CallWrap \/ CallFind \/ CallAll \/ CallWhere

SpecWrap == WrapInit /\ [][WrapNext]_vars

(***************************************************************************)
(* Concurrent queries on a PoolsFallbackRepository                         *)
(***************************************************************************)
MaxProviders == 3

MaxQueries == 2

FallbackInit ==
    /\ providers \in {[i \in 1..n |-> i - 1] : n \in 0..MaxProviders}
    /\ currentProviderIdx = 0
    /\ queries = [q \in 1..MaxQueries |-> NoQuery]
    /\ asked = {}
    /\ failedProviders = {}
    /\ IdleExcept({"fallback"})

\* the providers asked, after query q moved to state r
AskedWith(r) == IF r.pc = "waiting" THEN asked \cup {r.provider} ELSE asked

\* a caller calls fetch, find or findBy
StartQuery(q) ==
    /\ queries[q].pc = "idle"
    /\ \E r \in {FallbackQuery(Len(providers), currentProviderIdx, <<>>)} :
          /\ queries' = [queries EXCEPT ![q] = r]
          /\ asked' = AskedWith(r)
    /\ UNCHANGED <<providers, currentProviderIdx, failedProviders, fallbackFrame>>

\* the provider's promise wins the race with a result
ProviderAnswers(q) ==
    /\ queries[q].pc = "waiting"
    /\ queries' = [queries EXCEPT ![q].pc = "returned"]
    /\ UNCHANGED <<providers, currentProviderIdx, asked, failedProviders,
                   fallbackFrame>>

\* the provider's promise rejects or the timeout wins the race: the catch
\* block moves to the next provider and calls fallbackQuery again
ProviderFailsOrTimesOut(q) ==
    /\ queries[q].pc = "waiting"
    /\ currentProviderIdx' = NextProviderIdx(currentProviderIdx)
    /\ failedProviders' = failedProviders \cup {queries[q].provider}
    /\ \E r \in {FallbackQuery(Len(providers),
                                NextProviderIdx(currentProviderIdx),
                                queries[q].sent)} :
          /\ queries' = [queries EXCEPT ![q] = r]
          /\ asked' = AskedWith(r)
    /\ UNCHANGED <<providers, fallbackFrame>>

FallbackNext ==
    \E q \in 1..MaxQueries :
        \/ StartQuery(q)
        \/ ProviderAnswers(q)
        \/ ProviderFailsOrTimesOut(q)

SpecFallback == FallbackInit /\ [][FallbackNext]_vars

(***************************************************************************)
(* A swap builder driven by its caller, and Swaps.buildSwap                *)
(***************************************************************************)
MaxSlippage == 3

\* maxSlippage values: 0, 1, 50, 100, ... bps, and a number that is no integer
Slippages ==
    {[int |-> TRUE, bps |-> b] :
        b \in {0, 1} \cup {50 * k : k \in 1..(MaxSlippage - 1)}}
      \cup {[int |-> FALSE, bps |-> 0]}

DeadlineArgs ==
    {[kind |-> "BigNumber", n |-> 0], [kind |-> "BigNumber", n |-> 1700000000],
     [kind |-> "number", n |-> 0], [kind |-> "number", n |-> 1700000000],
     [kind |-> "string", n |-> 0], [kind |-> "string", n |-> 10]}

\* the assets of a swap over one hop
SwapAssets == <<"tokenIn", "hop", "tokenOut">>

SwapInit ==
    /\ builder \in {"single", "batch"}
    /\ swapKind \in {"SwapExactIn", "SwapExactOut"}
    /\ swapInfo \in {[swapAmount |-> BigInt(a), returnAmount |-> BigInt(b)] :
                        a \in {1000000, 999}, b \in {2000001}}
    /\ funds = FALSE
    /\ deadline = Undefined
    /\ limits = NoLimits
    /\ attrs = "none"
    /\ calledSetters = {}
    /\ deadlineArg = Undefined
    /\ IdleExcept({"swap"})

\* the limit or limits setLimits computes
LimitsFor(maxSlippage) ==
    [set |-> TRUE,
     vals |-> IF builder = "single"
              THEN SingleSwapBuilder_setLimits(swapKind, swapInfo, maxSlippage)
              ELSE BatchSwapBuilder_setLimits(swapKind, swapInfo, maxSlippage,
                                              SwapAssets),
     maxSlippage |-> maxSlippage]

SetFunds ==
    /\ attrs = "none"
    /\ funds' = TRUE
    /\ calledSetters' = calledSetters \cup {"setFunds"}
    /\ UNCHANGED <<builder, swapKind, swapInfo, deadline, limits, attrs,
                   deadlineArg, swapFrame>>

SetDeadline ==
    /\ attrs = "none"
    /\ \E arg \in DeadlineArgs :
          /\ deadline' = StoredDeadline(builder, arg)
          /\ deadlineArg' = arg
    /\ calledSetters' = calledSetters \cup {"setDeadline"}
    /\ UNCHANGED <<builder, swapKind, swapInfo, funds, limits, attrs, swapFrame>>

\* setLimits: BigNumber.mul throws for a number that is no integer, and the
\* limit stays as it was
SetLimits ==
    /\ attrs = "none"
    /\ \E ms \in Slippages :
          limits' = IF ms.int THEN LimitsFor(ms.bps) ELSE limits
    /\ calledSetters' = calledSetters \cup {"setLimits"}
    /\ UNCHANGED <<builder, swapKind, swapInfo, funds, deadline, attrs,
                   deadlineArg, swapFrame>>

CallAttributes ==
    /\ attrs = "none"
    /\ attrs' = IF Uninitialized(funds, limits, deadline)
                THEN "Uninitialized arguments" ELSE "attributes"
    /\ UNCHANGED <<builder, swapKind, swapInfo, funds, deadline, limits,
                   calledSetters, deadlineArg, swapFrame>>

\* Swaps.buildSwap on a new builder: setFunds, setDeadline, setLimits, then
\* attributes(); a setLimits that throws ends the call
BuildSwap ==
    /\ attrs = "none"
    /\ calledSetters = {}
    /\ \E arg \in DeadlineArgs, ms \in Slippages :
          /\ funds' = TRUE
          /\ deadline' = StoredDeadline(builder, arg)
          /\ deadlineArg' = arg
          /\ limits' = IF ms.int THEN LimitsFor(ms.bps) ELSE limits
          /\ attrs' = IF ~ms.int THEN "buildSwap: NUMERIC_FAULT"
                      ELSE IF Uninitialized(TRUE, LimitsFor(ms.bps),
                                            StoredDeadline(builder, arg))
                      THEN "buildSwap: Uninitialized arguments"
                      ELSE "buildSwap: attributes"
    /\ calledSetters' = {"setFunds", "setDeadline", "setLimits"}
    /\ UNCHANGED <<builder, swapKind, swapInfo, swapFrame>>

SwapNext ==
    \/ SetFunds
    \/ SetDeadline
    \/ SetLimits
    \/ CallAttributes
    \/ BuildSwap

SpecSwap == SwapInit /\ [][SwapNext]_vars

(***************************************************************************)
(* toNormalizedWeights called with short arrays of weights and with arrays *)
(* of MaxWeightedTokens weights                                            *)
(***************************************************************************)
MaxWeights == 3

\* 0, 1, 3, 1e18 / 3, 1e18 / 2, 1e18
WeightValues ==
    {BigInt(0), BigInt(1), BigInt(3), BigDiv(WeiPerEther, BigInt(3)),
     BigDiv(WeiPerEther, BigInt(2)), WeiPerEther}

ShortWeights ==
    UNION {[1..n -> WeightValues] : n \in 1..MaxWeights}

\* MaxWeightedTokens weights: the first is first, the others are rest
FullWeights(first, rest) ==
    [i \in 1..MaxWeightedTokens |-> IF i = 1 THEN first ELSE rest]

\* equal weights of 1e16 and of 1; 0.505e18 and 99 times 0.005e18, which sum
\* to 1e18; 1e18 and 99 times 1
LongWeights ==
    {FullWeights(BigDiv(WeiPerEther, BigInt(100)), BigDiv(WeiPerEther, BigInt(100))),
     FullWeights(BigInt(1), BigInt(1)),
     FullWeights(BigDiv(BigMul(WeiPerEther, BigInt(505)), BigInt(1000)),
                 BigDiv(WeiPerEther, BigInt(200))),
     FullWeights(WeiPerEther, BigInt(1))}

WeightsInit ==
    /\ weightsIn \in {ws \in ShortWeights \cup LongWeights :
                         BigLt(BZERO, SumWeights(ws))}
    /\ weightsOut = <<>>
    /\ weightsPc = "idle"
    /\ weightsOk = FALSE
    /\ IdleExcept({"weights"})

CallToNormalizedWeights ==
    /\ weightsPc = "idle"
    /\ weightsOut' = toNormalizedWeights(weightsIn)
    /\ weightsPc' = "normalized"
    /\ UNCHANGED <<weightsIn, weightsOk, weightsFrame>>

CallIsNormalizedWeights ==
    /\ weightsPc = "normalized"
    /\ weightsOk' = isNormalizedWeights(weightsOut)
    /\ weightsPc' = "checked"
    /\ UNCHANGED <<weightsIn, weightsOut, weightsFrame>>

WeightsNext ==
    \/ CallToNormalizedWeights
    \/ CallIsNormalizedWeights

SpecWeights == WeightsInit /\ [][WeightsNext]_vars

(***************************************************************************)
(* Liquidity.getLiquidity call by call: a call filters the pool's own      *)
(* address out of its tokens, looks every other token up in the pool       *)
(* repository and calls getLiquidity for each pool found; it settles when  *)
(* all of these have settled.  No more than MaxCalls calls are kept: past  *)
(* that, a call that enters a sub-pool call is replaced by that call.      *)
(***************************************************************************)
MaxRepoPools == 2

MaxCalls == 6

PoolAddresses == {"poolA", "poolB", "poolC"}

RepoAddresses ==
    {a \in PoolAddresses :
        \/ a = "poolA"
        \/ a = "poolB" /\ MaxRepoPools >= 2
        \/ a = "poolC" /\ MaxRepoPools >= 3}

\* the tokens a pool may hold: BPT of the pools, and a token that is no pool
HeldAddresses == RepoAddresses \cup {"token"}

\* parsedTokens of a call on pool p, and the pools this.pools.findBy finds
ParsedTokensOf(p) == repoTokens[p] \ {p}

SubPoolsOf(p) == ParsedTokensOf(p) \cap RepoAddresses

RECURSIVE SeqOfSet(_)
SeqOfSet(S) ==
    IF S = {} THEN <<>>
    ELSE LET x == CHOOSE y \in S : TRUE IN <<x>> \o SeqOfSet(S \ {x})

NestingInit ==
    /\ repoTokens \in [RepoAddresses -> SUBSET HeldAddresses]
    /\ nested = <<[pool |-> "poolA", parent |-> 0, state |-> "entered"]>>
    /\ IdleExcept({"nesting"})

\* a call reaches its Promise.all: one getLiquidity call per sub-pool
EnterSubPools ==
    \E i \in 1..Len(nested) :
        /\ nested[i].state = "entered"
        /\ Len(nested) + Cardinality(SubPoolsOf(nested[i].pool)) <= MaxCalls
        /\ nested' = [nested EXCEPT ![i].state = "awaiting"]
                       \o [k \in 1..Cardinality(SubPoolsOf(nested[i].pool)) |->
                              [pool |-> SeqOfSet(SubPoolsOf(nested[i].pool))[k],
                               parent |-> i, state |-> "entered"]]
        /\ UNCHANGED <<repoTokens, nestingFrame>>

\* a call reaches its Promise.all when MaxCalls calls are kept: it is
\* replaced by one of the calls it enters
EnterBeyondMaxCalls ==
    \E i \in 1..Len(nested) :
        /\ nested[i].state = "entered"
        /\ Len(nested) + Cardinality(SubPoolsOf(nested[i].pool)) > MaxCalls
        /\ \E subPool \in SubPoolsOf(nested[i].pool) :
              nested' = [nested EXCEPT ![i].pool = subPool]
        /\ UNCHANGED <<repoTokens, nestingFrame>>

\* a call whose sub-pool calls have all settled resolves or rejects
SettleCall ==
    \E i \in 1..Len(nested) :
        /\ nested[i].state = "awaiting"
        /\ \A k \in 1..Len(nested) :
              nested[k].parent = i => nested[k].state = "settled"
        /\ nested' = [nested EXCEPT ![i].state = "settled"]
        /\ UNCHANGED <<repoTokens, nestingFrame>>

NestingNext ==
    \/ EnterSubPools
    \/ EnterBeyondMaxCalls
    \/ SettleCall

SpecNesting == NestingInit /\ [][NestingNext]_vars

\* every call that can take a step does: the look-ups all answer
SpecNestingFair == SpecNesting /\ WF_vars(NestingNext)

(***************************************************************************)
(* buildJoin called with the tokens of a pool and any tokensIn             *)
(***************************************************************************)
MaxAddress == 3

JoinLengths == {2, 3}

\* the wrapped native asset is the first address
WethAddress == [key |-> 1, upper |-> FALSE]

\* the pool's tokens: different addresses, in lower case
PoolTokenLists ==
    {l \in UNION {[1..n -> {[key |-> k, upper |-> FALSE] : k \in 1..MaxAddress}] :
                    n \in JoinLengths} :
        \A i, j \in 1..Len(l) : l[i] = l[j] => i = j}

\* tokensIn: ETH and the addresses in either letter case
TokensInLists ==
    UNION {[1..n -> {ETH} \cup [key : 1..MaxAddress, upper : BOOLEAN]] :
            n \in JoinLengths}

AlignInit ==
    /\ alignPool \in PoolTokenLists
    /\ alignTokensIn \in TokensInLists
    /\ alignResult = NotJoined
    /\ IdleExcept({"align"})

CallBuildJoinSorted ==
    /\ alignResult = NotJoined
    /\ alignResult' \in BuildJoinSorted(alignPool, alignTokensIn, WethAddress)
    /\ UNCHANGED <<alignPool, alignTokensIn, alignFrame>>

AlignNext == CallBuildJoinSorted

SpecAlign == AlignInit /\ [][AlignNext]_vars

(***************************************************************************)
(* Properties of _calculateInvariant                                       *)
(***************************************************************************)
Within1(x, y) == BigLe(BigSub(x, y), BONE) /\ BigLe(BigSub(y, x), BONE)

IsFloor(e) ==
    /\ BigLe(BigMul(e.q, e.b), e.a)
    /\ BigLt(e.a, BigMul(BigAdd(e.q, BONE), e.b))

\* q is a / b rounded up, for a >= 0 and b > 0
IsCeil(e) ==
    /\ BigLt(BigMul(BigSub(e.q, BONE), e.b), e.a)
    /\ BigLe(e.a, BigMul(e.q, e.b))

RoundedAs(e, up) == IF up THEN IsCeil(e) ELSE IsFloor(e)

Inexact(e) == BigMod(e.a, e.b) # BZERO

\* C2 as stated: every division of the call is rounded in the caller's direction.
C2_AllDivisionsCallerDirection ==
    \A i \in 1..Len(divs) : RoundedAs(divs[i], roundUp)

\* C2, amended: every division of the call is rounded in the caller's direction,
\* except the division by AMP_PRECISION inside the denominator of the update,
\* which is rounded in the opposite direction.
C2_DivisionDirections ==
    \A i \in 1..Len(divs) :
        IF divs[i].site = "denominator" THEN RoundedAs(divs[i], ~roundUp)
        ELSE RoundedAs(divs[i], roundUp)

C2_Witness ==
    /\ roundUp
    /\ \E i, j \in 1..Len(divs) :
          /\ divs[i].site = "denominator" /\ Inexact(divs[i])
          /\ divs[j].site = "quotient" /\ Inexact(divs[j])

\* the balances of the first call were all positive
FirstBalancesPositive ==
    \A i \in 1..Len(balances) :
        BigLt(BZERO, IF i = raised THEN BigSub(balances[i], BONE) ELSE balances[i])

\* C3: the same amp, balances and roundUp give the same D again, and with
\* positive balances raising exactly one balance gives a strictly larger D.
C3_DeterministicAndStrictlyIncreasing ==
    (pc = "returned" /\ calls = 2) =>
        IF raised = 0 THEN invariant = firstD
        ELSE FirstBalancesPositive => BigLt(firstD, invariant)

AllEqualPositive ==
    /\ Len(balances) >= 2
    /\ BigLt(BZERO, balances[1])
    /\ \A i \in 1..Len(balances) : balances[i] = balances[1]

\* C4: for n >= 2 equal positive balances b and amp >= AMP_PRECISION the call
\* does not throw and returns D with |D - n*b| <= 1, in either rounding direction.
C4_BalancedPoolInvariant ==
    AllEqualPositive =>
        /\ pc # "threw"
        /\ pc = "returned" =>
              Within1(invariant, BigMul(BigInt(Len(balances)), balances[1]))

C4_Witness ==
    /\ AllEqualPositive /\ pc = "returned"
    /\ balances[1] = e18(1000000) /\ amp = BigInt(100000)
    /\ iter >= 1

(***************************************************************************)
(* Properties of the SolidityMaths functions                               *)
(***************************************************************************)
BigAbs(x) == IF BigLt(x, BZERO) THEN BigNeg(x) ELSE x

\* q is p / d truncated toward zero: the remainder is smaller than d in
\* absolute value and is zero or has the sign of p
IsTruncated(p, d, q) ==
    /\ BigLt(BigAbs(BigSub(p, BigMul(q, d))), BigAbs(d))
    /\ \/ BigSub(p, BigMul(q, d)) = BZERO
       \/ BigLt(BigSub(p, BigMul(q, d)), BZERO) <=> BigLt(p, BZERO)

Done(op) == fres[op] # Pending

Returned(op) == fres[op].err = "none"

\* up and down are two returned values with down <= up <= down + 1
UpWithinOneOfDown(up, down) ==
    /\ up.err = "none" /\ down.err = "none"
    /\ BigLe(down.val, up.val)
    /\ BigLe(BigSub(up.val, down.val), BONE)

\* C5: for a >= 0 and b > 0, divUpFixed(a,b) >= divDownFixed(a,b) and the two
\* differ by at most 1; the same holds for divUp(a,b) and divDown(a,b).
C5_DivUpWithinOneOfDivDown ==
    (BigLe(BZERO, fa) /\ BigLt(BZERO, fb)) =>
        /\ (Done("divUpFixed") /\ Done("divDownFixed")) =>
               UpWithinOneOfDown(fres["divUpFixed"], fres["divDownFixed"])
        /\ (Done("divUp") /\ Done("divDown")) =>
               UpWithinOneOfDown(fres["divUp"], fres["divDown"])

C5_Witness ==
    /\ BigLt(BZERO, fa) /\ BigLt(BZERO, fb)
    /\ Returned("divUpFixed") /\ Returned("divDownFixed")
    /\ fres["divUpFixed"].val = BigAdd(fres["divDownFixed"].val, BONE)
    /\ Returned("divUp") /\ Returned("divDown")
    /\ fres["divUp"].val = BigAdd(fres["divDown"].val, BONE)

\* C6: for a, b >= 0, mulUpFixed(a,b) = mulDownFixed(a,b) when a*b is a
\* multiple of ONE and mulDownFixed(a,b) + 1 otherwise.
C6_MulUpIsMulDownOrOneMore ==
    (BigLe(BZERO, fa) /\ BigLe(BZERO, fb)
       /\ Done("mulUpFixed") /\ Done("mulDownFixed")) =>
        /\ Returned("mulUpFixed") /\ Returned("mulDownFixed")
        /\ fres["mulUpFixed"].val =
              IF BigMod(BigMul(fa, fb), ONE) = BZERO
              THEN fres["mulDownFixed"].val
              ELSE BigAdd(fres["mulDownFixed"].val, BONE)

C6_Witness ==
    /\ BigLt(BZERO, fa) /\ BigLt(BZERO, fb)
    /\ BigMod(BigMul(fa, fb), ONE) # BZERO
    /\ BigLe(ONE, BigMul(fa, fb))
    /\ Returned("mulUpFixed") /\ Returned("mulDownFixed")

\* C7: with b = 0 divDownFixed and divUpFixed throw ZERO_DIVISION, also when
\* a = 0; otherwise, for a >= 0 and b > 0, divDownFixed returns a*ONE/b rounded
\* down and divUpFixed returns 0 when a = 0 and 1 + (a*ONE - 1)/b otherwise.
C7_FixedDivisionValuesAndZeroDivision ==
    /\ fb = BZERO =>
          /\ Done("divDownFixed") =>
                fres["divDownFixed"].err = "Errors.ZERO_DIVISION"
          /\ Done("divUpFixed") =>
                fres["divUpFixed"].err = "Errors.ZERO_DIVISION"
    /\ (BigLe(BZERO, fa) /\ BigLt(BZERO, fb)) =>
          /\ Done("divDownFixed") =>
                /\ Returned("divDownFixed")
                /\ IsFloor([a |-> BigMul(fa, ONE), b |-> fb,
                            q |-> fres["divDownFixed"].val])
          /\ Done("divUpFixed") =>
                /\ Returned("divUpFixed")
                /\ fres["divUpFixed"].val =
                      IF fa = BZERO THEN BZERO
                      ELSE BigAdd(BONE,
                                  BigDiv(BigSub(BigMul(fa, ONE), BONE), fb))

C7_Witness ==
    /\ fa = BZERO /\ fb = BZERO
    /\ fres["divDownFixed"].err = "Errors.ZERO_DIVISION"
    /\ fres["divUpFixed"].err = "Errors.ZERO_DIVISION"

\* C8: mulDownFixed(a,b) throws MUL_OVERFLOW exactly when a # 0 and
\* (a*b)/a # b, and otherwise returns a*b/ONE truncated toward zero; with
\* a = 0 it returns 0 for every b.
C8_MulDownTruncatesTowardZero ==
    Done("mulDownFixed") =>
        /\ fres["mulDownFixed"].err = "Errors.MUL_OVERFLOW"
              <=> (fa # BZERO /\ BigDiv(BigMul(fa, fb), fa) # fb)
        /\ fres["mulDownFixed"].err \in {"none", "Errors.MUL_OVERFLOW"}
        /\ Returned("mulDownFixed") =>
              IsTruncated(BigMul(fa, fb), ONE, fres["mulDownFixed"].val)
        /\ fa = BZERO => fres["mulDownFixed"] = Ok(BZERO)

C8_Witness ==
    /\ Returned("mulDownFixed")
    /\ BigLt(BigMul(fa, fb), BZERO)
    /\ BigMod(BigMul(fa, fb), ONE) # BZERO

(***************************************************************************)
(* Properties of pow and powUpFixed                                        *)
(***************************************************************************)
BothPowCalled == praw # Pending /\ pres # Pending

\* the margin powUpFixed added to raw
PowMargin == BigSub(pres.val, praw.val)

\* C9 as stated: powUpFixed returns raw + raw * MAX_POW_RELATIVE_ERROR / ONE + 1
\* with the quotient an integer division.
C9_MarginIntegerDivision ==
    (BothPowCalled /\ praw.err = "none") =>
        /\ pres.err = "none"
        /\ PowMargin =
              BigAdd(BigDiv(BigMul(praw.val, BigInt(10000)), ONE), BONE)

\* C9, amended: powUpFixed throws what pow throws and otherwise returns raw
\* plus a margin of raw * MAX_POW_RELATIVE_ERROR / ONE rounded up, plus 1, so
\* the result is strictly greater than raw.
C9_MarginRoundedUp ==
    BothPowCalled =>
        IF praw.err # "none" THEN pres.err = praw.err
        ELSE /\ pres.err = "none"
             /\ IsCeil([a |-> BigMul(praw.val, BigInt(10000)), b |-> ONE,
                        q |-> BigSub(PowMargin, BONE)])
             /\ BigLt(praw.val, pres.val)

C9_Witness ==
    /\ BothPowCalled /\ praw.err = "none" /\ pres.err = "none"
    /\ BigMod(BigMul(praw.val, BigInt(10000)), ONE) # BZERO

\* C10: pow(x, 0) = ONE for every x, x = 0 included; pow(0, y) = 0 for y > 0;
\* pow(ONE, y) = ONE for 0 <= y < MILD_EXPONENT_BOUND.
C10_PowSpecialCases ==
    praw # Pending =>
        /\ py = BZERO => praw = Ok(ONE)
        /\ (px = BZERO /\ BigLt(BZERO, py)) => praw = Ok(BZERO)
        /\ (px = ONE /\ BigLe(BZERO, py) /\ BigLt(py, MILD_EXPONENT_BOUND)) =>
              praw = Ok(ONE)

C10_Witness ==
    /\ px = ONE /\ py = BigSub(MILD_EXPONENT_BOUND, BONE)
    /\ praw = Ok(ONE)

\* C11 as stated: pow throws X_OUT_OF_BOUNDS for every x >= 2^255 and
\* Y_OUT_OF_BOUNDS for every y >= MILD_EXPONENT_BOUND (with x in bounds),
\* whatever the other argument is.
C11_OutOfDomainAlwaysThrows ==
    praw # Pending =>
        /\ BigLe(X_BOUND, px) => praw.err = "Errors.X_OUT_OF_BOUNDS"
        /\ (BigLe(MILD_EXPONENT_BOUND, py) /\ BigLt(px, X_BOUND)) =>
              praw.err = "Errors.Y_OUT_OF_BOUNDS"

\* C11, amended: the two shortcuts come first.  pow throws X_OUT_OF_BOUNDS
\* exactly when x >= 2^255 and y # 0, and Y_OUT_OF_BOUNDS exactly when
\* y >= MILD_EXPONENT_BOUND and 0 < x < 2^255; pow(x, 0) returns ONE also for
\* x >= 2^255 and pow(0, y) returns 0 also for y >= MILD_EXPONENT_BOUND.
C11_BoundsAfterShortcuts ==
    praw # Pending =>
        /\ praw.err = "Errors.X_OUT_OF_BOUNDS"
              <=> (BigLe(X_BOUND, px) /\ py # BZERO)
        /\ praw.err = "Errors.Y_OUT_OF_BOUNDS"
              <=> (BigLe(MILD_EXPONENT_BOUND, py) /\ BigLt(BZERO, px)
                     /\ BigLt(px, X_BOUND))
        /\ (BigLe(X_BOUND, px) /\ py = BZERO) => praw = Ok(ONE_18)
        /\ (px = BZERO /\ BigLe(MILD_EXPONENT_BOUND, py)) => praw = Ok(BZERO)

C11_Witness ==
    /\ px = X_BOUND /\ py = MILD_EXPONENT_BOUND
    /\ praw.err = "Errors.X_OUT_OF_BOUNDS"

\* the product y * ln(x) that pow hands to exp, for 0 < x < 2^255 and
\* 0 < y < MILD_EXPONENT_BOUND
PowProduct == BigDiv(PowLog(px, py), ONE_18)

PowInDomain ==
    /\ BigLt(BZERO, px) /\ BigLt(px, X_BOUND)
    /\ BigLt(BZERO, py) /\ BigLt(py, MILD_EXPONENT_BOUND)

OutsideExpInterval(x) == BigLt(x, BigNeg(e18(41))) \/ BigLt(e18(130), x)

\* C12: exp(x) throws INVALID_EXPONENT exactly when x < -41e18 or x > 130e18;
\* for -41e18 <= x < 0 it returns ONE*ONE / exp(-x); pow throws
\* PRODUCT_OUT_OF_BOUNDS exactly when its product y*ln(x) is outside that
\* interval and never throws INVALID_EXPONENT.
C12_ExpBoundsAndInversion ==
    /\ eres # Pending =>
          /\ eres.err = "Errors.INVALID_EXPONENT" <=> OutsideExpInterval(ex)
          /\ eres.err \in {"none", "Errors.INVALID_EXPONENT"}
    /\ (eres # Pending /\ einv # Pending /\ BigLt(ex, BZERO)
          /\ ~OutsideExpInterval(ex)) =>
          /\ eres.err = "none" /\ einv.err = "none"
          /\ eres.val = BigDiv(BigMul(ONE, ONE), einv.val)
    /\ praw # Pending =>
          /\ praw.err # "Errors.INVALID_EXPONENT"
          /\ PowInDomain =>
                (praw.err = "Errors.PRODUCT_OUT_OF_BOUNDS"
                   <=> OutsideExpInterval(PowProduct))

C12_Witness ==
    /\ ex = BigNeg(e18(41))
    /\ eres.err = "none" /\ einv.err = "none"
    /\ BigLt(BZERO, eres.val)

(***************************************************************************)
(* Properties of calcPriceImpact                                            *)
(***************************************************************************)
\* C13 as stated: calcPriceImpact returns ONE - divDownFixed(bptAmount,
\* bptZeroPriceImpact), fails with ZERO_DIVISION when bptZeroPriceImpact is 0,
\* and the result is negative whenever bptAmount exceeds bptZeroPriceImpact.
C13_NegativeWheneverAmountExceeds ==
    ires.err # "pending" =>
        /\ ires.err = "none"
             => ires.val = BigSub(ONE, BigDiv(BigMul(ia, ONE), iz))
        /\ iz = BZERO <=> ires.err = "Errors.ZERO_DIVISION"
        /\ (ires.err = "none" /\ BigLt(iz, ia)) => BigLt(ires.val, BZERO)

\* C13: calcPriceImpact returns ONE - divDownFixed(bptAmount,
\* bptZeroPriceImpact) without clamping and fails with ZERO_DIVISION exactly
\* when bptZeroPriceImpact is 0.  The quotient is rounded down, so the result
\* is negative exactly when bptAmount * ONE >= bptZeroPriceImpact * (ONE + 1);
\* when bptAmount exceeds bptZeroPriceImpact it is negative or zero, and
\* when it does not, the result is not negative.
C13_ImpactUnclampedRoundedDown ==
    ires.err # "pending" =>
        /\ ires.err = "none"
             => ires.val = BigSub(ONE, BigDiv(BigMul(ia, ONE), iz))
        /\ iz = BZERO <=> ires.err = "Errors.ZERO_DIVISION"
        /\ iz # BZERO => ires.err = "none"
        /\ ires.err = "none" =>
              /\ BigLt(ires.val, BZERO)
                   <=> BigLe(BigMul(iz, BigAdd(ONE, BONE)), BigMul(ia, ONE))
              /\ BigLt(iz, ia) => BigLe(ires.val, BZERO)
              /\ BigLe(ia, iz) => BigLe(BZERO, ires.val)

\* bptAmount exceeds bptZeroPriceImpact by one wei and the result is zero
C13_Witness ==
    /\ ia = BigAdd(e18(2), BONE)
    /\ iz = e18(2)
    /\ ires = Ok(BZERO)

(***************************************************************************)
(* Properties of the price impact calculators                              *)
(***************************************************************************)
\* C14: bptZeroPriceImpact of a Weighted, Stable, MetaStable or StablePhantom
\* pool fails with INPUT_LENGTH_MISMATCH exactly when the number of token
\* amounts differs from the pool's token count (tokensList.length, and
\* tokensList.length - 1 for StablePhantom), whatever the snapshot lacks and
\* whether or not its balances can be parsed; calcPriceImpact of the pool
\* fails the same way.
C14_LengthMismatchFirst ==
    pool.poolType \in PricedTypes =>
        /\ bptZero # Pending =>
              (bptZero.err = "INPUT_LENGTH_MISMATCH"
                  <=> Len(tokenAmounts) # ExpectedAmounts(pool))
        /\ priceImpact # Pending =>
              (priceImpact.err = "INPUT_LENGTH_MISMATCH"
                  <=> Len(tokenAmounts) # ExpectedAmounts(pool))

\* a Stable pool whose first balance cannot be parsed (its decimals are
\* missing) and one token amount too many: the call failed on the length
C14_Witness ==
    /\ pool.poolType = "Stable"
    /\ pool.tokens[1].decimals = 0
    /\ parsePoolInfo(pool).err # "none"
    /\ Len(tokenAmounts) = Len(pool.tokensList) + 1
    /\ bptZero.err = "INPUT_LENGTH_MISMATCH"
    /\ priceImpact.err = "INPUT_LENGTH_MISMATCH"

\* the snapshot lacks the field f of some token, or the pool's amp
Lacks(p, f) ==
    CASE f = "decimals" -> \E i \in 1..Len(p.tokens) : p.tokens[i].decimals = 0
      [] f = "priceRate" -> \E i \in 1..Len(p.tokens) : ~p.tokens[i].priceRate.has
      [] f = "amp" -> ~p.amp.has

\* the stable pool types, and those of them that read the tokens' price rates
StableTypes == {"Stable", "MetaStable", "StablePhantom"}

RatedTypes == {"MetaStable", "StablePhantom"}

\* C15: bptZeroPriceImpact of a Stable, MetaStable or StablePhantom pool, given
\* the right number of token amounts, fails with MISSING_DECIMALS when a token
\* has no decimals, with MISSING_AMP when the pool has no amp and with
\* MISSING_PRICE_RATE when a token has no price rate (where the pool type
\* reads price rates); a snapshot that lacks one of them never yields a value.
C15_EachMissingFieldOwnCode ==
    (/\ pool.poolType \in StableTypes
     /\ Len(tokenAmounts) = ExpectedAmounts(pool)
     /\ bptZero # Pending)
        => /\ (Lacks(pool, "decimals") /\ pool.amp.has
                /\ ~Lacks(pool, "priceRate"))
                  => bptZero.err = "MISSING_DECIMALS"
           /\ (Lacks(pool, "amp") /\ ~Lacks(pool, "decimals")
                /\ ~Lacks(pool, "priceRate"))
                  => bptZero.err = "MISSING_AMP"
           /\ (Lacks(pool, "priceRate") /\ pool.poolType \in RatedTypes
                /\ pool.amp.has /\ ~Lacks(pool, "decimals"))
                  => bptZero.err = "MISSING_PRICE_RATE"
           /\ (Lacks(pool, "decimals") \/ Lacks(pool, "amp")
                \/ (Lacks(pool, "priceRate") /\ pool.poolType \in RatedTypes))
                  => bptZero.err \in {"MISSING_DECIMALS", "MISSING_AMP",
                                      "MISSING_PRICE_RATE"}

\* the remaining tokens of a StablePhantom pool, its own BPT removed
RemainingTokens(p) == Splice(p.tokens, BptIndex(p))

\* bptZeroPriceImpact of a StablePhantom pool with the balance, price rate and
\* decimals of each remaining token combined with the amount at its position
PhantomPerToken(p, info, amounts, upscaled) ==
    PhantomCombine(info, amounts, Splice(p.tokensList, BptIndex(p)),
                   Splice(upscaled.vals, BptIndex(p)),
                   Splice(Values(info.parsedPriceRates), BptIndex(p)),
                   Splice(info.parsedDecimals, BptIndex(p)))

\* C17: bptZeroPriceImpact of a StablePhantom pool removes the pool's own BPT
\* wherever it sits in tokensList: the balances it passes on are those of the
\* remaining tokens, and at every position i the price rate and the decimals
\* it combines with balance i and amount i are those of remaining token i, so
\* that the value returned is the one computed per remaining token.
C17_PhantomCombinesPerToken ==
    (/\ pool.poolType = "StablePhantom"
     /\ bptZero # Pending
     /\ bptZero.err = "none")
        => /\ \A i \in 1..Len(RemainingTokens(pool)) :
                 /\ Values(parsePoolInfo(pool).parsedPriceRates)[i]
                       = ParseFixed(RemainingTokens(pool)[i].priceRate.val, 18).val
                 /\ parsePoolInfo(pool).parsedDecimals[i]
                       = RemainingTokens(pool)[i].decimals
           /\ bptZero = PhantomPerToken(pool, parsePoolInfo(pool), tokenAmounts,
                                        UpscaleAll(parsePoolInfo(pool).parsedBalances,
                                                   parsePoolInfo(pool).parsedDecimals))

(***************************************************************************)
(* Properties of buildJoin                                                  *)
(***************************************************************************)
JoinLengthsMatch ==
    Len(tokensIn) = Len(amountsIn) /\ Len(tokensIn) = Len(joinPool.tokensList)

\* C16: buildJoin of a Stable or MetaStable pool validates in the order
\* INPUT_LENGTH_MISMATCH, MISSING_DECIMALS, MISSING_AMP and, for MetaStable,
\* MISSING_PRICE_RATE, and fails with the code of the first validation
\* violated; a pool without amp that passes the two earlier validations fails
\* with MISSING_AMP; every such failure comes before parsePoolInfo runs, a
\* pool without amp never gets past the validations, and a failed call
\* returns no transaction attributes.
C16_JoinValidationOrder ==
    joined # NotBuilt =>
        /\ ~JoinLengthsMatch => joined.err = "INPUT_LENGTH_MISMATCH"
        /\ (JoinLengthsMatch /\ Lacks(joinPool, "decimals"))
              => joined.err = "MISSING_DECIMALS"
        /\ (JoinLengthsMatch /\ ~Lacks(joinPool, "decimals")
              /\ Lacks(joinPool, "amp")) => joined.err = "MISSING_AMP"
        /\ (JoinLengthsMatch /\ ~Lacks(joinPool, "decimals")
              /\ ~Lacks(joinPool, "amp") /\ Lacks(joinPool, "priceRate")
              /\ joinPool.poolType = "MetaStable")
              => joined.err = "MISSING_PRICE_RATE"
        /\ joined.err \in {"INPUT_LENGTH_MISMATCH", "MISSING_DECIMALS",
                           "MISSING_AMP", "MISSING_PRICE_RATE"}
              => ~joined.parsed
        /\ Lacks(joinPool, "amp")
              => /\ ~joined.parsed
                 /\ joined.err \in {"INPUT_LENGTH_MISMATCH", "MISSING_DECIMALS",
                                    "MISSING_AMP"}
        /\ joined.err # "none" => ~joined.attributes

\* a MetaStable pool that lacks both amp and a price rate, joined with the
\* right number of tokens and amounts: the call failed on the amp
C16_Witness ==
    /\ joinPool.poolType = "MetaStable"
    /\ JoinLengthsMatch
    /\ Lacks(joinPool, "amp")
    /\ Lacks(joinPool, "priceRate")
    /\ joined = [err |-> "MISSING_AMP", parsed |-> FALSE, attributes |-> FALSE]

(***************************************************************************)
(* Properties of Liquidity.getLiquidity and calcTotal                      *)
(***************************************************************************)
\* the tokens of the pool other than its own BPT, and what the pools
\* repository and the recursion give for each of them
ParsedTokens(p) == WithoutOwnBpt(p.tokens, p.address, 1)

SubPoolEntries(p) ==
    [i \in 1..Len(ParsedTokens(p)) |->
        SubPoolEntry(pools, tokenPrices, ParsedTokens(p)[i])]

\* the sum named by the specification: every sub-pool's share, plus the pool
\* type's calcTotal over the tokens that are no pools
SumOfShares(p) ==
    SumFrom([i \in 1..Len(SubPoolEntries(p)) |-> SubPoolEntries(p)[i].liquidity],
            1)

DirectLiquidity(p) ==
    Liquidity_calcTotal(p.poolType,
        [i \in 1..Len(NonPoolTokens(ParsedTokens(p), SubPoolEntries(p), 1)) |->
            PricedToken(NonPoolTokens(ParsedTokens(p), SubPoolEntries(p), 1)[i],
                        CoingeckoFind(tokenPrices,
                            NonPoolTokens(ParsedTokens(p), SubPoolEntries(p),
                                          1)[i].address))])

\* C19: a total returned by getLiquidity is the sum, over every token that is
\* itself a pool, of subPoolLiquidity * tokenBalance / subPoolTotalShares,
\* plus calcTotal of the pool type over the remaining tokens, wherever the
\* sub-pool tokens sit among the ordinary tokens.
C19_LiquidityIsSumOfShares ==
    liquidity.err = "none"
        => liquidity.val = BigAdd(SumOfShares(liquidityPool),
                                  ParseTotal(DirectLiquidity(liquidityPool).val))

\* a look-up the call makes has failed: the pool look-up for one of the
\* pool's tokens, or the price request for one of its ordinary tokens
SomeLookUpFailed(p) ==
    \E i \in 1..Len(ParsedTokens(p)) :
        \/ pools[ParsedTokens(p)[i].address].status = "failed"
        \/ /\ pools[ParsedTokens(p)[i].address].status = "none"
           /\ tokenPrices[ParsedTokens(p)[i].address].status = "failed"

\* C20: when a pool look-up, a price look-up or a recursive sub-pool
\* computation of getLiquidity fails, the call fails as a whole and returns
\* no total computed from the remaining results.
C20_AnyFailureFailsWhole ==
    (liquidity # Pending /\ SomeLookUpFailed(liquidityPool))
        => liquidity.err # "none"

(***************************************************************************)
(* Properties of the Linear pool handlers                                  *)
(***************************************************************************)
LinearPool == liquidityPool.poolType \in LinearTypes /\ pool = liquidityPool

\* C18 as stated: for a Linear pool bptZeroPriceImpact, calcPriceImpact and
\* liquidity.calcTotal all fail for every input and never return a value.
C18_LinearNothingImplemented ==
    LinearPool =>
        /\ bptZero # Pending => bptZero.err # "none"
        /\ priceImpact # Pending => priceImpact.err # "none"
        /\ total # Pending => total.err # "none"

\* every token of the pool has a price
AllPriced(tokens) == \A i \in 1..Len(tokens) : HasPrice(tokens[i])

\* C18, amended: for a Linear pool bptZeroPriceImpact and calcPriceImpact fail
\* with their not-implemented errors for every input, while
\* liquidity.calcTotal is implemented: it never fails, and returns the sum of
\* balance * price when every token has a price.
C18_LinearPriceImpactNotImplemented ==
    LinearPool =>
        /\ bptZero # Pending
              => bptZero = Fail("Linear Pool bptZeroPriceImpact Not Implented")
        /\ priceImpact # Pending
              => priceImpact = Fail("Linear Pool Price Impact Not Implented")
        /\ total # Pending =>
              /\ total.err = "none"
              /\ AllPriced(PricedTokens(tokenPrices, liquidityPool.tokens))
                    => total.val
                         = SumFrom([i \in 1..Len(liquidityPool.tokens) |->
                              BigMul(ParseFixed(liquidityPool.tokens[i].balance,
                                                18).val,
                                     ParseFixed(tokenPrices[liquidityPool
                                                  .tokens[i].address].usd,
                                                18).val)], 1)

\* an ERC4626Linear pool with a token whose price request failed: both price
\* impact calls failed and calcTotal returned a positive value
C18_Witness ==
    /\ liquidityPool.poolType = "ERC4626Linear" /\ pool = liquidityPool
    /\ \E i \in 1..Len(liquidityPool.tokens) :
          tokenPrices[liquidityPool.tokens[i].address].status = "failed"
    /\ bptZero.err = "Linear Pool bptZeroPriceImpact Not Implented"
    /\ priceImpact.err = "Linear Pool Price Impact Not Implented"
    /\ total.err = "none" /\ BigLt(BZERO, total.val)

(***************************************************************************)
(* Properties of _computeScalingFactor                                     *)
(***************************************************************************)
HasLongToken(p) == \E i \in 1..Len(p.tokens) : p.tokens[i].decimals > 18

\* C21: _computeScalingFactor(tokenDecimals) returns ONE * 10^(18 -
\* tokenDecimals) for 0 <= tokenDecimals <= 18, that is the factor which
\* times 10^tokenDecimals gives ONE * 10^18, and fails for every
\* tokenDecimals above 18; bptZeroPriceImpact and calcPriceImpact of a pool
\* that has a token of more than 18 decimals return no value.
C21_ScalingFactorUpTo18Decimals ==
    /\ scalingFactor # Pending =>
          IF tokenDecimals <= 18
          THEN /\ scalingFactor.err = "none"
               /\ BigMul(scalingFactor.val, BigPow(BigInt(10), tokenDecimals))
                     = BigMul(ONE, ONE)
          ELSE scalingFactor.err # "none"
    /\ (bptZero # Pending /\ HasLongToken(pool)) => bptZero.err # "none"
    /\ (priceImpact # Pending /\ HasLongToken(pool)) => priceImpact.err # "none"

\* a Weighted pool whose last token has 19 decimals: no scaling factor for
\* 19 decimals, and both calls failed on it
C21_Witness ==
    /\ tokenDecimals = 19
    /\ scalingFactor.err = "RangeError"
    /\ pool.poolType = "Weighted"
    /\ pool.tokens[Len(pool.tokens)].decimals = 19
    /\ bptZero.err = "RangeError"
    /\ priceImpact.err = "RangeError"

(***************************************************************************)
(* Properties of parseFixed and parsePoolInfo                              *)
(***************************************************************************)
\* floor(value * 10 ^ decimals) of the decimal string s
FloorScaled(s, decimals) ==
    BigDiv(BigMul(BigInt(s.whole * 1000 + s.milli), BigPow(BigInt(10), decimals)),
           BigInt(1000))

\* C22: parseFixed and parsePoolInfo turn a non-negative decimal string into
\* floor(value * 10^decimals): the digits beyond the target precision are
\* dropped, and neither rounds up or fails because of them.
C22_ParsingDropsExcessDigits ==
    /\ parsed # Pending => parsed = Ok(FloorScaled(parseValue, parseDecimals))
    /\ parsedInfo # Pending
          => parsedInfo = Ok(FloorScaled(parseValue, parseDecimals))

(***************************************************************************)
(* Properties of PoolTypeConcerns.from and Pools                           *)
(***************************************************************************)
\* the class of handlers the specification names for a pool type
HandlersOf(poolType) ==
    IF poolType \in {"Weighted", "Investment", "LiquidityBootstrapping"}
    THEN "Weighted"
    ELSE IF poolType \in {"AaveLinear", "ERC4626Linear"} THEN "Linear"
    ELSE poolType

\* the call on the pools of list failed on an unsupported type, or returned
\* each pool with the handlers of its type
WrappedAs(r, list) ==
    IF \E i \in 1..Len(list) : list[i] \notin SupportedTypes
    THEN r = [err |-> "UNSUPPORTED_POOL_TYPE", handlers |-> <<>>]
    ELSE r = [err |-> "none",
              handlers |-> [i \in 1..Len(list) |-> HandlersOf(list[i])]]

\* C23: PoolTypeConcerns.from returns the Weighted handlers for Weighted,
\* Investment and LiquidityBootstrapping, the Stable, MetaStable and
\* StablePhantom handlers for those types and the Linear handlers for
\* AaveLinear and ERC4626Linear, and fails with UNSUPPORTED_POOL_TYPE for any
\* other type; Pools.wrap, find, all and where fail with that error when one
\* of the pools they are to return has an unsupported type, and return no
\* pool then.
C23_HandlersByPoolType ==
    /\ wrapped["wrap"] # NotWrapped
          => WrappedAs(wrapped["wrap"], <<repoList[1]>>)
    /\ wrapped["find"] # NotWrapped
          => WrappedAs(wrapped["find"], Found(repoList))
    /\ wrapped["all"] # NotWrapped => WrappedAs(wrapped["all"], repoList)
    /\ wrapped["where"] # NotWrapped
          => WrappedAs(wrapped["where"], Filtered(repoList, whereFilter, 1))

\* a data source with an Investment pool and an Element pool: wrap and find
\* returned the first with the Weighted handlers, all failed, and where
\* returned the Weighted pools, of which there are none
C23_Witness ==
    /\ repoList = <<"Investment", "Element">>
    /\ whereFilter = "Weighted"
    /\ wrapped["wrap"] = [err |-> "none", handlers |-> <<"Weighted">>]
    /\ wrapped["find"] = [err |-> "none", handlers |-> <<"Weighted">>]
    /\ wrapped["all"] = [err |-> "UNSUPPORTED_POOL_TYPE", handlers |-> <<>>]
    /\ wrapped["where"] = [err |-> "none", handlers |-> <<>>]

(***************************************************************************)
(* Properties of PoolsFallbackRepository                                   *)
(***************************************************************************)
Increasing(seq) == \A i \in 1..(Len(seq) - 1) : seq[i] < seq[i + 1]

\* where the queries stand: a waiting query waits for the provider it was
\* sent to last, every query went through the providers in list order, the
\* providers that failed lie behind the current index, and a query threw
\* only "No working providers found", with the index at the end of the list
FallbackOrder ==
    /\ \A q \in 1..MaxQueries :
          /\ Increasing(queries[q].sent)
          /\ queries[q].pc = "waiting"
                => /\ queries[q].provider < Len(providers)
                   /\ queries[q].provider = queries[q].sent[Len(queries[q].sent)]
          /\ queries[q].pc = "threw"
                => /\ queries[q].err = "No working providers found"
                   /\ currentProviderIdx >= Len(providers)
    /\ \A i \in failedProviders : i < currentProviderIdx

\* what a step does: the index never decreases; a query is sent to the
\* provider at the current index; a query whose provider failed or timed out
\* is sent again or throws, and it is sent to the very next provider when no
\* other query has failed in between; with the index at the end of the list
\* a new query throws
FallbackStep ==
    /\ currentProviderIdx' >= currentProviderIdx
    /\ \A q \in 1..MaxQueries :
          /\ queries'[q].sent # queries[q].sent
                => /\ queries'[q].pc = "waiting"
                   /\ queries'[q].provider = currentProviderIdx'
                   /\ queries'[q].sent = Append(queries[q].sent, currentProviderIdx')
          /\ (queries[q].pc = "waiting" /\ queries'[q] # queries[q]
                 /\ queries'[q].pc # "returned")
                => /\ currentProviderIdx' = currentProviderIdx + 1
                   /\ queries'[q].pc = "threw"
                         <=> currentProviderIdx' >= Len(providers)
                   /\ (queries'[q].pc = "waiting"
                         /\ queries[q].provider = currentProviderIdx)
                         => queries'[q].provider = queries[q].provider + 1
          /\ (queries[q].pc = "idle" /\ queries'[q] # queries[q]
                 /\ currentProviderIdx >= Len(providers))
                => queries'[q].pc = "threw"

C27_IndexCountsFailedProviders ==
    /\ currentProviderIdx = Cardinality(failedProviders)
    /\ \A i \in 0..(currentProviderIdx - 1) :
          i < Len(providers) => i \in asked
    /\ (\E q \in 1..MaxQueries : queries[q].pc = "threw")
          => \A i \in 0..(Len(providers) - 1) : i \in asked

(***************************************************************************)
(* Properties of the swap builders                                         *)
(***************************************************************************)
\* amount * (10000 + bps) / 10000 and amount * (10000 - bps) / 10000
BpsAbove(amount, bps) ==
    BigDiv(BigMul(amount, BigInt(10000 + bps)), BigInt(10000))

BpsBelow(amount, bps) ==
    BigDiv(BigMul(amount, BigInt(10000 - bps)), BigInt(10000))

\* C25: maxSlippage of setLimits is in basis points: for an exact-in swap the
\* limit on the output is amountOut * (10000 - maxSlippage) / 10000, and for
\* an exact-out swap the limit on the input is amountIn * (10000 +
\* maxSlippage) / 10000; BatchSwapBuilder holds the limit on the output as a
\* negative number at the position of the output token.
C25_LimitsInBasisPoints ==
    limits.set =>
        IF swapKind = "SwapExactIn"
        THEN IF builder = "single"
             THEN limits.vals[1]
                    = BpsBelow(swapInfo.returnAmount, limits.maxSlippage)
             ELSE limits.vals[3]
                    = BigNeg(BpsBelow(swapInfo.returnAmount, limits.maxSlippage))
        ELSE limits.vals[1] = BpsAbove(swapInfo.returnAmount, limits.maxSlippage)

AllSetters == {"setFunds", "setDeadline", "setLimits"}

FailedUninitialized ==
    attrs \in {"Uninitialized arguments", "buildSwap: Uninitialized arguments"}

\* C29 as stated: whatever the arguments, attributes() fails with
\* "Uninitialized arguments" exactly when one of the three setters has not
\* been called, and buildSwap never fails with that error.
C29_UninitializedIffSetterMissing ==
    attrs # "none" =>
        /\ FailedUninitialized <=> calledSetters # AllSetters
        /\ attrs # "buildSwap: Uninitialized arguments"

\* the deadline given last is stored as a value that converts to false: an
\* empty string, and for BatchSwapBuilder also the number 0
FalsyDeadline ==
    \/ deadlineArg = [kind |-> "string", n |-> 0]
    \/ builder = "batch" /\ deadlineArg = [kind |-> "number", n |-> 0]

\* C29, amended: attributes() fails with "Uninitialized arguments" exactly
\* when setFunds or setDeadline has not been called, no call of setLimits has
\* returned (it throws for a maxSlippage that is no integer), or the deadline
\* given last converts to false as stored; with a BigNumber as deadline and
\* integer maxSlippage that is exactly when one of the three setters has not
\* been called.  buildSwap fails with that error exactly when its deadline
\* is such a value.
C29_UninitializedIffFieldFalsy ==
    (attrs # "none" /\ attrs # "buildSwap: NUMERIC_FAULT") =>
        /\ FailedUninitialized
              <=> \/ "setFunds" \notin calledSetters
                  \/ "setDeadline" \notin calledSetters
                  \/ ~limits.set
                  \/ FalsyDeadline
        /\ (deadlineArg.kind \in {"BigNumber", "undefined"}
               /\ ("setLimits" \in calledSetters => limits.set))
              => (FailedUninitialized <=> calledSetters # AllSetters)
        /\ attrs = "buildSwap: Uninitialized arguments" => FalsyDeadline

\* on a BatchSwapBuilder all three setters were called, the deadline being
\* the number 0, and attributes() failed
C29_Witness ==
    /\ builder = "batch"
    /\ calledSetters = AllSetters
    /\ limits.set
    /\ deadlineArg = [kind |-> "number", n |-> 0]
    /\ attrs = "Uninitialized arguments"

(***************************************************************************)
(* Properties of toNormalizedWeights                                       *)
(***************************************************************************)
\* the result has the length of the input, no negative weight, and the sum
\* 1e18, which isNormalizedWeights confirms
NormalizedResult ==
    /\ Len(weightsOut) = Len(weightsIn)
    /\ \A i \in 1..Len(weightsOut) : ~weightsOut[i].neg
    /\ SumWeights(weightsOut) = WeiPerEther
    /\ weightsPc = "checked" => weightsOk

\* C26 as stated: for non-negative weights of positive sum the result has
\* the same length, no negative weight and the sum 1e18, and is the input
\* itself whenever the input sums to 1e18.
C26_NormalizedAndUnchangedWhenNormal ==
    weightsPc # "idle" =>
        /\ NormalizedResult
        /\ SumWeights(weightsIn) = WeiPerEther => weightsOut = weightsIn

\* C26, amended: the same, but the input is returned unchanged only when it
\* sums to 1e18 and does not hold exactly MaxWeightedTokens weights; for
\* MaxWeightedTokens weights every weight returned is 1e18 / 100.
C26_NormalizedUnlessFull ==
    weightsPc # "idle" =>
        /\ NormalizedResult
        /\ (SumWeights(weightsIn) = WeiPerEther
               /\ Len(weightsIn) # MaxWeightedTokens)
              => weightsOut = weightsIn
        /\ Len(weightsIn) = MaxWeightedTokens
              => \A i \in 1..MaxWeightedTokens :
                     weightsOut[i] = BigDiv(WeiPerEther, BigInt(100))

\* 100 weights that sum to 1e18 came back changed
C26_Witness ==
    /\ weightsPc = "checked"
    /\ Len(weightsIn) = MaxWeightedTokens
    /\ SumWeights(weightsIn) = WeiPerEther
    /\ weightsOut # weightsIn
    /\ weightsOk

(***************************************************************************)
(* Properties of the calls of getLiquidity                                 *)
(***************************************************************************)
\* C28: getLiquidity(pool) terminates for every finite pool repository
\* whose look-ups all answer, also when two pools hold each other's BPT: the
\* first call settles.
C28_GetLiquidityTerminates == <>(nested[1].state = "settled")

(***************************************************************************)
(* Properties of the sorting of buildJoin                                  *)
(***************************************************************************)
\* at every position the amount, the balance and the weight belong to one
\* token, and the asset named there is that token, ETH standing for WETH
AlignedAt(i) ==
    /\ alignResult.amounts[i] = alignResult.balances[i]
    /\ alignResult.amounts[i] = alignResult.weights[i]
    /\ translateToERC20(alignResult.assets[i], WethAddress).key
         = alignResult.amounts[i]

\* C30: whenever buildJoin passes its validation, the amount, the pool
\* balance and the weight handed to the BPT-out math at each position belong
\* to the same token and assets[i] names that token, for every order and
\* letter case of tokensIn and every tokensIn the validation accepts.
C30_JoinInputsAligned ==
    alignResult.err = "none" =>
        \A i \in 1..Len(alignResult.assets) : AlignedAt(i)

====
